---- MODULE Spec2Model ----
(***************************************************************************)
(* Othello engine: the bitboard rules (src/src/games/othello/rules.py),    *)
(* the immutable game state (src/src/games/othello/state.py) and the       *)
(* agents' select_action entry points (src/src/agents).                    *)
(*                                                                         *)
(* A 64-bit mask is modelled as the set of its set bits, a subset of       *)
(* 0..63; bit i is square (i \div 8, i % 8).  Shifts and the mask          *)
(* operators &, |, ^ are modelled bit for bit on that representation.      *)
(***************************************************************************)
EXTENDS Integers, Sequences, FiniteSets, TLC

\* ------------------------------------------------------------------ bounds
\* Number of apply_action calls explored from each starting layout.
MaxPly == 3
\* Number of squares of a line that the rule-function inputs colour.
MaxLine == 4
MaxDepth == 2
\* Number of AgentInfo objects the arena's agents create in all.
MaxObjects == 4
\* Number of select_action calls made on the arena's agents in all.
MaxCalls == 2
\* Largest games argument of run_tournament.
MaxGames == 2
\* Largest visit count of the nodes handed to _ucb_score.
MaxVisits == 3

\* --------------------------------------------------------- rules.py constants
BOARD_SIZE == 8
NumSquares == BOARD_SIZE * BOARD_SIZE
FULL == 0 .. (NumSquares - 1)
A_FILE == {i \in FULL : i % BOARD_SIZE = 0}
H_FILE == {i \in FULL : i % BOARD_SIZE = BOARD_SIZE - 1}
NOT_A_FILE == (FULL \ A_FILE) \cup (A_FILE \ FULL)
NOT_H_FILE == (FULL \ H_FILE) \cup (H_FILE \ FULL)
PLAYER_BLACK == 1
PLAYER_WHITE == -1
PASS_ACTION == <<>>

\* ------------------------------------------------------------ mask operators
\* x ^ y
Xor(x, y) == (x \ y) \cup (y \ x)
\* (x << n) & FULL
Shl(x, n) == {i + n : i \in x} \cap FULL
\* x >> n
Shr(x, n) == {i - n : i \in {j \in x : j >= n}}

coord_to_bit(row, col) == {row * BOARD_SIZE + col}
bit_to_coord(idx) == <<idx \div BOARD_SIZE, idx % BOARD_SIZE>>

shift_n(x) == Shl(x, BOARD_SIZE)
shift_s(x) == Shr(x, BOARD_SIZE)
\* shift_e without the H-file mask: a disc on column H moves to column A
shift_e_unmasked(x) == Shl(x, 1)
shift_e(x) == Shl(x \cap NOT_H_FILE, 1)
shift_w(x) == Shr(x \cap NOT_A_FILE, 1)
shift_ne(x) == Shl(x \cap NOT_H_FILE, 9)
shift_nw(x) == Shl(x \cap NOT_A_FILE, 7)
shift_se(x) == Shr(x \cap NOT_H_FILE, 7)
shift_sw(x) == Shr(x \cap NOT_A_FILE, 9)

DIRS == <<"n", "s", "e", "w", "ne", "nw", "se", "sw">>

\* sh(x) for the shift function named d
Sh(d, x) ==
    CASE d = "n" -> shift_n(x)
      [] d = "s" -> shift_s(x)
      [] d = "e" -> shift_e(x)
      [] d = "w" -> shift_w(x)
      [] d = "ne" -> shift_ne(x)
      [] d = "nw" -> shift_nw(x)
      [] d = "se" -> shift_se(x)
      [] d = "sw" -> shift_sw(x)

starting_position ==
    [black |-> {3 * BOARD_SIZE + 4, 4 * BOARD_SIZE + 3},
     white |-> {3 * BOARD_SIZE + 3, 4 * BOARD_SIZE + 4},
     player |-> PLAYER_BLACK]

\* t |= sh(t) & opp_bits
legal_moves_step(d, t, opp_bits) == t \cup (Sh(d, t) \cap opp_bits)

\* One pass of the loop body of legal_moves_mask for direction d: the first
\* assignment to t, the five steps, and the bits added to moves.
legal_moves_dir(d, player_bits, opp_bits, empty) ==
    LET t0 == Sh(d, player_bits) \cap opp_bits
        t1 == legal_moves_step(d, t0, opp_bits)
        t2 == legal_moves_step(d, t1, opp_bits)
        t3 == legal_moves_step(d, t2, opp_bits)
        t4 == legal_moves_step(d, t3, opp_bits)
        t5 == legal_moves_step(d, t4, opp_bits)
    IN  Sh(d, t5) \cap empty

legal_moves_mask(player_bits, opp_bits) ==
    LET empty == Xor(FULL, player_bits \cup opp_bits)
        moves == UNION {legal_moves_dir(DIRS[k], player_bits, opp_bits, empty) :
                        k \in 1 .. Len(DIRS)}
    IN  moves \cap FULL

\* The lowest set bit of a non-empty mask: (bb & -bb).bit_length() - 1
LowestBit(bb) == CHOOSE i \in bb : \A j \in bb : i <= j

\* The while loop of OthelloRules.legal_actions: peel the lowest bit off bb
\* and append its coordinate.
RECURSIVE legal_actions_loop(_, _)
legal_actions_loop(bb, actions) ==
    IF bb = {} THEN actions
    ELSE LET idx == LowestBit(bb)
         IN  legal_actions_loop(Xor(bb, {idx}), Append(actions, bit_to_coord(idx)))

\* Python's order on (row, col) tuples
CoordLess(a, b) == a[1] < b[1] \/ (a[1] = b[1] /\ a[2] < b[2])

\* list.sort() on a list of coordinates
list_sort(actions) == SortSeq(actions, CoordLess)

OthelloRules_legal_actions(player_bits, opp_bits) ==
    LET mask == legal_moves_mask(player_bits, opp_bits)
    IN  list_sort(legal_actions_loop(mask, <<>>))

\* The while loop of flips_for_move in one direction: returns the final x
\* and the captured run.
RECURSIVE flips_walk(_, _, _, _)
flips_walk(d, x, captured, opp_bits) ==
    IF x # {} /\ (x \cap opp_bits) # {}
    THEN flips_walk(d, Sh(d, x), captured \cup x, opp_bits)
    ELSE [x |-> x, captured |-> captured]

\* flips_dir that commits a run whatever ends it
flips_dir_uncommitted(d, move_bit, player_bits, opp_bits) ==
    flips_walk(d, Sh(d, move_bit), {}, opp_bits).captured

\* flips_dir that also captures the own disc ending the run
flips_dir_with_end(d, move_bit, player_bits, opp_bits) ==
    LET w == flips_walk(d, Sh(d, move_bit), {}, opp_bits)
    IN  IF (w.x \cap player_bits) # {} THEN w.captured \cup w.x ELSE {}

\* One pass of the for loop of flips_for_move: the bits direction d adds.
flips_dir(d, move_bit, player_bits, opp_bits) ==
    LET w == flips_walk(d, Sh(d, move_bit), {}, opp_bits)
    IN  IF (w.x \cap player_bits) # {} THEN w.captured ELSE {}

flips_for_move(move_bit, player_bits, opp_bits) ==
    LET flips == UNION {flips_dir(DIRS[k], move_bit, player_bits, opp_bits) :
                        k \in 1 .. Len(DIRS)}
    IN  flips \cap FULL

\* apply_action that forgets to place the disc on the move square
apply_action_without_move_bit(black, white, player, action) ==
    IF action = PASS_ACTION
    THEN [black |-> black, white |-> white, player |-> -player]
    ELSE LET move_bit == coord_to_bit(action[1], action[2])
             player_bits == IF player = PLAYER_BLACK THEN black ELSE white
             opp_bits == IF player = PLAYER_BLACK THEN white ELSE black
         IN  IF (move_bit \cap legal_moves_mask(player_bits, opp_bits)) = {}
             THEN [black |-> black, white |-> white, player |-> -player]
             ELSE LET flips == flips_for_move(move_bit, player_bits, opp_bits)
                  IN  IF player = PLAYER_BLACK
                      THEN [black |-> player_bits \cup flips,
                            white |-> Xor(opp_bits, flips), player |-> -player]
                      ELSE [black |-> Xor(opp_bits, flips),
                            white |-> player_bits \cup flips, player |-> -player]

\* apply_action that leaves the turn with the mover after an illegal coordinate
apply_action_illegal_keeps_turn(black, white, player, action) ==
    IF action = PASS_ACTION
    THEN [black |-> black, white |-> white, player |-> -player]
    ELSE LET move_bit == coord_to_bit(action[1], action[2])
             player_bits == IF player = PLAYER_BLACK THEN black ELSE white
             opp_bits == IF player = PLAYER_BLACK THEN white ELSE black
         IN  IF (move_bit \cap legal_moves_mask(player_bits, opp_bits)) = {}
             THEN [black |-> black, white |-> white, player |-> player]
             ELSE LET flips == flips_for_move(move_bit, player_bits, opp_bits)
                  IN  IF player = PLAYER_BLACK
                      THEN [black |-> player_bits \cup move_bit \cup flips,
                            white |-> Xor(opp_bits, flips), player |-> -player]
                      ELSE [black |-> Xor(opp_bits, flips),
                            white |-> player_bits \cup move_bit \cup flips,
                            player |-> -player]

\* OthelloRules.apply_action on (black, white, player, action); the result
\* is the triple as a record.
OthelloRules_apply_action(black, white, player, action) ==
    IF action = PASS_ACTION
    THEN [black |-> black, white |-> white, player |-> -player]
    ELSE LET move_bit == coord_to_bit(action[1], action[2])
             player_bits == IF player = PLAYER_BLACK THEN black ELSE white
             opp_bits == IF player = PLAYER_BLACK THEN white ELSE black
             legal_mask == legal_moves_mask(player_bits, opp_bits)
         IN  IF (move_bit \cap legal_mask) = {}
             THEN [black |-> black, white |-> white, player |-> -player]
             ELSE LET flips == flips_for_move(move_bit, player_bits, opp_bits)
                      new_player_bits == player_bits \cup move_bit \cup flips
                      new_opp_bits == Xor(opp_bits, flips)
                  IN  IF player = PLAYER_BLACK
                      THEN [black |-> new_player_bits, white |-> new_opp_bits,
                            player |-> -player]
                      ELSE [black |-> new_opp_bits, white |-> new_player_bits,
                            player |-> -player]

\* is_terminal that asks only whether the side to move is stuck
is_terminal_mover_only(black, white, player) ==
    LET player_bits == IF player = PLAYER_BLACK THEN black ELSE white
        opp_bits == IF player = PLAYER_BLACK THEN white ELSE black
    IN  (black \cup white) = FULL \/ legal_moves_mask(player_bits, opp_bits) = {}

OthelloRules_is_terminal(black, white, player) ==
    LET filled == black \cup white
        player_bits == IF player = PLAYER_BLACK THEN black ELSE white
        opp_bits == IF player = PLAYER_BLACK THEN white ELSE black
    IN  IF filled = FULL THEN TRUE
        ELSE IF legal_moves_mask(player_bits, opp_bits) # {} THEN FALSE
        ELSE legal_moves_mask(opp_bits, player_bits) = {}

\* int.bit_count()
bit_count(x) == Cardinality(x)

score(black, white) == <<bit_count(black), bit_count(white)>>

winner(black, white) ==
    LET b == score(black, white)[1]
        w == score(black, white)[2]
    IN  IF b > w THEN PLAYER_BLACK
        ELSE IF w > b THEN PLAYER_WHITE
        ELSE 0

\* ------------------------------------------------------------ Python calls
\* The outcome of a call: a returned value or a raised exception.
Return(v) == [exc |-> "none", val |-> v]
Raise(e) == [exc |-> e, val |-> <<>>]
Raised(r) == r.exc # "none"

\* The rest of a function body after a call: an exception the call raised
\* propagates, a returned value is passed on.
Bind(r, rest(_)) == IF Raised(r) THEN r ELSE rest(r.val)

\* Python binds nargs positional arguments to the first parameters; a call
\* is accepted when every keyword names one of the remaining parameters.
Accepts(params, nargs, kwargs) ==
    kwargs \subseteq {params[i] : i \in (nargs + 1) .. Len(params)}

\* def legal_moves_mask(player_bits, opp_bits)
legal_moves_mask_params == <<"player_bits", "opp_bits">>
\* def legal_actions(player_bits, opp_bits)
legal_actions_params == <<"player_bits", "opp_bits">>

\* A call OthelloRules.legal_moves_mask(player_bits, opp_bits, **kwargs)
call_legal_moves_mask(player_bits, opp_bits, kwargs) ==
    IF Accepts(legal_moves_mask_params, 2, kwargs)
    THEN Return(legal_moves_mask(player_bits, opp_bits))
    ELSE Raise("TypeError")

\* A call OthelloRules.legal_actions(player_bits, opp_bits, **kwargs)
call_legal_actions(player_bits, opp_bits, kwargs) ==
    IF Accepts(legal_actions_params, 2, kwargs)
    THEN Return(OthelloRules_legal_actions(player_bits, opp_bits))
    ELSE Raise("TypeError")

\* ------------------------------------------------------------------ state.py
\* OthelloState(black, white, _player) with its __post_init__
OthelloState(black, white, player) ==
    IF black = {} /\ white = {}
    THEN starting_position
    ELSE [black |-> black, white |-> white, player |-> player]

player_bits_of(s) ==
    IF s.player = PLAYER_BLACK THEN <<s.black, s.white>> ELSE <<s.white, s.black>>

\* OthelloState.legal_actions(): the call passes include_pass=True
OthelloState_legal_actions(s) ==
    LET pb == player_bits_of(s)
    IN  call_legal_actions(pb[1], pb[2], {"include_pass"})

\* OthelloState(*triple)
OthelloState_of(r) == OthelloState(r.black, r.white, r.player)

OthelloState_apply_action(s, action) ==
    OthelloState_of(OthelloRules_apply_action(s.black, s.white, s.player, action))

OthelloState_is_terminal(s) == OthelloRules_is_terminal(s.black, s.white, s.player)

\* OthelloState.outcome(perspective)
OthelloState_outcome(s, perspective) ==
    LET w == winner(s.black, s.white)
    IN  IF w = 0 THEN 0 ELSE IF w = perspective THEN 1 ELSE -1

\* -------------------------------------------------------------- heuristics.py
\* A float is modelled as an exact fraction <<numerator, denominator>> in
\* lowest terms with a positive denominator; inf and -inf are <<1, 0>> and
\* <<-1, 0>>.
RECURSIVE Gcd(_, _)
Gcd(a, b) == IF b = 0 THEN a ELSE Gcd(b, a % b)
Abs(n) == IF n < 0 THEN -n ELSE n
Sign(n) == IF n < 0 THEN -1 ELSE IF n > 0 THEN 1 ELSE 0
\* n / d for d >= 0
Frac(n, d) ==
    IF d = 0 THEN <<Sign(n), 0>>
    ELSE <<n \div Gcd(Abs(n), d), d \div Gcd(Abs(n), d)>>
INF == Frac(1, 0)
NEG_INF == Frac(-1, 0)
\* a < b: by the integer parts, then by the inverted fractional parts
RECURSIVE FracLess(_, _)
FracLess(a, b) ==
    IF a[2] = 0 \/ b[2] = 0 THEN a[1] * b[2] < b[1] * a[2]
    ELSE IF a[1] \div a[2] # b[1] \div b[2] THEN a[1] \div a[2] < b[1] \div b[2]
    ELSE IF b[1] % b[2] = 0 THEN FALSE
    ELSE IF a[1] % a[2] = 0 THEN TRUE
    ELSE FracLess(<<b[2], b[1] % b[2]>>, <<a[2], a[1] % a[2]>>)
\* a + b for finite b
FracAdd(a, b) ==
    IF a[2] = 0 THEN a
    ELSE Frac(a[1] * (b[2] \div Gcd(a[2], b[2])) + b[1] * (a[2] \div Gcd(a[2], b[2])),
              (a[2] \div Gcd(a[2], b[2])) * b[2])
FracScale(k, a) == Frac(k * a[1], a[2])
FracNeg(a) == Frac(-a[1], a[2])
\* max(a, b) and min(a, b) of Python: the first argument wins a tie
FracMax(a, b) == IF FracLess(a, b) THEN b ELSE a
FracMin(a, b) == IF FracLess(b, a) THEN b ELSE a
Max1(n) == IF n < 1 THEN 1 ELSE n

PositionalWeights ==
    <<<<100, -20, 10, 5, 5, 10, -20, 100>>,
      <<-20, -50, -2, -2, -2, -2, -50, -20>>,
      <<10, -2, -1, -1, -1, -1, -2, 10>>,
      <<5, -2, -1, -1, -1, -1, -2, 5>>,
      <<5, -2, -1, -1, -1, -1, -2, 5>>,
      <<10, -2, -1, -1, -1, -1, -2, 10>>,
      <<-20, -50, -2, -2, -2, -2, -50, -20>>,
      <<100, -20, 10, 5, 5, 10, -20, 100>>>>

RECURSIVE SumOver(_, _)
\* The sum of f[i] over the squares i of a set
SumOver(S, f) ==
    IF S = {} THEN 0
    ELSE LET i == CHOOSE j \in S : TRUE IN f[i] + SumOver(S \ {i}, f)

piece_parity(s, player) ==
    LET b == score(s.black, s.white)[1]
        w == score(s.black, s.white)[2]
        diff == IF player = PLAYER_BLACK THEN b - w ELSE w - b
    IN  Frac(diff, Max1(b + w))

\* mobility_heuristic: both legal_moves_mask calls pass cache=mask_cache
mobility_heuristic(s, player) ==
    LET player_bits == IF player = PLAYER_BLACK THEN s.black ELSE s.white
        opp_bits == IF player = PLAYER_BLACK THEN s.white ELSE s.black
    IN  Bind(call_legal_moves_mask(player_bits, opp_bits, {"cache"}), LAMBDA pm :
            Bind(call_legal_moves_mask(opp_bits, player_bits, {"cache"}), LAMBDA om :
                Return(Frac(bit_count(pm) - bit_count(om),
                            Max1(bit_count(pm) + bit_count(om))))))

corner_heuristic(s, player) ==
    LET corners == {0, BOARD_SIZE - 1, BOARD_SIZE * (BOARD_SIZE - 1),
                    BOARD_SIZE * BOARD_SIZE - 1}
        sc == [i \in corners |->
                 IF i \in s.black THEN (IF player = PLAYER_BLACK THEN 25 ELSE -25)
                 ELSE IF i \in s.white THEN (IF player = PLAYER_WHITE THEN 25 ELSE -25)
                 ELSE 0]
    IN  Frac(SumOver(corners, sc), 25 * Cardinality(corners))

positional_heuristic(s, player) ==
    LET piece(i) == IF i \in s.black THEN PLAYER_BLACK
                    ELSE IF i \in s.white THEN PLAYER_WHITE ELSE 0
        sc == [i \in FULL |->
                 LET weight == PositionalWeights[(i \div BOARD_SIZE) + 1][(i % BOARD_SIZE) + 1]
                 IN  IF piece(i) = player THEN weight
                     ELSE IF piece(i) = -player THEN -weight ELSE 0]
    IN  Frac(SumOver(FULL, sc), 100)

\* 0.2 parity + 0.4 mobility + 0.3 corners + 0.1 positional, that is
\* (2 parity + 4 mobility + 3 corners + positional) / 10
weighted_sum(parity, mobility, corners, positional) ==
    LET sum == FracAdd(FracAdd(FracScale(2, parity), FracScale(4, mobility)),
                       FracAdd(FracScale(3, corners), positional))
    IN  Frac(sum[1], 10 * sum[2])

evaluate_state(s, player) ==
    Bind(mobility_heuristic(s, player), LAMBDA mobility :
        Return(weighted_sum(piece_parity(s, player), mobility,
                            corner_heuristic(s, player),
                            positional_heuristic(s, player))))

OthelloState_evaluate(s, player) == evaluate_state(s, player)

\* ------------------------------------------------------------------ agents
\* The agents are built as the tests and the factory build them: no
\* heuristic argument, so _evaluate falls through to state.evaluate.
agent_evaluate(s, player) == OthelloState_evaluate(s, player)

\* sorted(actions)
sorted(actions) == SortSeq(actions, CoordLess)

\* The root loop shared by the agents: vals[i] is the outcome of computing
\* the value of actions[i]; a later action replaces the best so far only
\* when its value is strictly greater.
RECURSIVE best_action_loop(_, _, _, _, _)
best_action_loop(actions, vals, i, best_action, best_value) ==
    IF i > Len(actions) THEN Return(best_action)
    ELSE Bind(vals[i], LAMBDA value :
             IF FracLess(best_value, value)
             THEN best_action_loop(actions, vals, i + 1, actions[i], value)
             ELSE best_action_loop(actions, vals, i + 1, best_action, best_value))

\* MinimaxAgent._max_value (maximizing) and _min_value (not maximizing)
RECURSIVE minimax_value(_, _, _, _)
RECURSIVE minimax_fold(_, _, _, _, _, _, _)
minimax_fold(s, actions, i, depth, perspective, maximizing, value) ==
    IF i > Len(actions) THEN Return(value)
    ELSE Bind(minimax_value(OthelloState_apply_action(s, actions[i]),
                            depth - 1, perspective, ~maximizing),
              LAMBDA v :
                 minimax_fold(s, actions, i + 1, depth, perspective, maximizing,
                              IF maximizing THEN FracMax(value, v)
                              ELSE FracMin(value, v)))

minimax_value(s, depth, perspective, maximizing) ==
    IF depth = 0 \/ OthelloState_is_terminal(s)
    THEN agent_evaluate(s, perspective)
    ELSE Bind(OthelloState_legal_actions(s), LAMBDA actions :
             IF actions = <<>>
             THEN minimax_value(OthelloState_apply_action(s, PASS_ACTION),
                                depth - 1, perspective, ~maximizing)
             ELSE minimax_fold(s, actions, 1, depth, perspective, maximizing,
                               IF maximizing THEN NEG_INF ELSE INF))

\* The outcomes of the _min_value calls of MinimaxAgent.select_action, one
\* per root action
minimax_root(s, actions, depth) ==
    [i \in 1 .. Len(actions) |->
        minimax_value(OthelloState_apply_action(s, actions[i]), depth - 1,
                      s.player, FALSE)]

\* The values MinimaxAgent.select_action computes for the root actions, in
\* the order of sorted(actions)
Minimax_root_values(s, depth) ==
    Bind(OthelloState_legal_actions(s), LAMBDA actions :
        Return(minimax_root(s, sorted(actions), depth)))

Minimax_select_action(s, depth) ==
    Bind(OthelloState_legal_actions(s), LAMBDA actions :
        IF actions = <<>> THEN Return(PASS_ACTION)
        ELSE best_action_loop(sorted(actions), minimax_root(s, sorted(actions), depth),
                              1, PASS_ACTION, NEG_INF))

\* AlphaBetaAgent._max_value (maximizing) and _min_value (not maximizing)
RECURSIVE alphabeta_value(_, _, _, _, _, _)
RECURSIVE alphabeta_fold(_, _, _, _, _, _, _, _, _)
RECURSIVE alphabeta_prune(_, _, _, _, _, _, _, _, _)
\* After value = max(value, ...) or min(value, ...): narrow the window and
\* break when alpha >= beta
alphabeta_prune(s, actions, i, depth, alpha, beta, perspective, maximizing, value) ==
    LET alpha2 == IF maximizing THEN FracMax(alpha, value) ELSE alpha
        beta2 == IF maximizing THEN beta ELSE FracMin(beta, value)
    IN  IF ~FracLess(alpha2, beta2) THEN Return(value)
        ELSE alphabeta_fold(s, actions, i + 1, depth, alpha2, beta2, perspective,
                            maximizing, value)

alphabeta_fold(s, actions, i, depth, alpha, beta, perspective, maximizing, value) ==
    IF i > Len(actions) THEN Return(value)
    ELSE Bind(alphabeta_value(OthelloState_apply_action(s, actions[i]),
                              depth - 1, alpha, beta, perspective, ~maximizing),
              LAMBDA v :
                 alphabeta_prune(s, actions, i, depth, alpha, beta, perspective,
                                 maximizing,
                                 IF maximizing THEN FracMax(value, v)
                                 ELSE FracMin(value, v)))

alphabeta_value(s, depth, alpha, beta, perspective, maximizing) ==
    IF depth = 0 \/ OthelloState_is_terminal(s)
    THEN agent_evaluate(s, perspective)
    ELSE Bind(OthelloState_legal_actions(s), LAMBDA actions :
             IF actions = <<>>
             THEN alphabeta_value(OthelloState_apply_action(s, PASS_ACTION),
                                  depth - 1, alpha, beta, perspective, ~maximizing)
             ELSE alphabeta_fold(s, actions, 1, depth, alpha, beta, perspective,
                                 maximizing, IF maximizing THEN NEG_INF ELSE INF))

\* The outcomes of the _min_value calls of AlphaBetaAgent.select_action
alphabeta_root(s, actions, depth) ==
    [i \in 1 .. Len(actions) |->
        alphabeta_value(OthelloState_apply_action(s, actions[i]), depth - 1,
                        NEG_INF, INF, s.player, FALSE)]

\* The values AlphaBetaAgent.select_action computes for the root actions
AlphaBeta_root_values(s, depth) ==
    Bind(OthelloState_legal_actions(s), LAMBDA actions :
        Return(alphabeta_root(s, sorted(actions), depth)))

AlphaBeta_select_action(s, depth) ==
    Bind(OthelloState_legal_actions(s), LAMBDA actions :
        IF actions = <<>> THEN Return(PASS_ACTION)
        ELSE best_action_loop(sorted(actions), alphabeta_root(s, sorted(actions), depth),
                              1, PASS_ACTION, NEG_INF))

\* The outcomes of the evaluations of ReflexAgent.select_action
reflex_root(s, actions) ==
    [i \in 1 .. Len(actions) |->
        agent_evaluate(OthelloState_apply_action(s, actions[i]), s.player)]

\* ReflexAgent.select_action
Reflex_select_action(s) ==
    Bind(OthelloState_legal_actions(s), LAMBDA actions :
        IF actions = <<>> THEN Return(PASS_ACTION)
        ELSE best_action_loop(sorted(actions), reflex_root(s, sorted(actions)),
                              1, PASS_ACTION, NEG_INF))

\* ExpectimaxAgent._expect_value
RECURSIVE expect_value(_, _, _, _)
RECURSIVE expect_fold(_, _, _, _, _, _, _)
\* value is the running maximum (maximizing) or the running total (otherwise)
expect_fold(s, actions, i, depth, perspective, maximizing, value) ==
    IF i > Len(actions)
    THEN Return(IF maximizing THEN value
                ELSE Frac(value[1], value[2] * Len(actions)))
    ELSE Bind(expect_value(OthelloState_apply_action(s, actions[i]),
                           depth - 1, ~maximizing, perspective),
              LAMBDA v :
                 expect_fold(s, actions, i + 1, depth, perspective, maximizing,
                             IF maximizing THEN FracMax(value, v)
                             ELSE FracAdd(value, v)))

expect_value(s, depth, maximizing, perspective) ==
    IF depth = 0 \/ OthelloState_is_terminal(s)
    THEN agent_evaluate(s, perspective)
    ELSE Bind(OthelloState_legal_actions(s), LAMBDA actions :
             IF actions = <<>>
             THEN expect_value(OthelloState_apply_action(s, PASS_ACTION),
                               depth - 1, ~maximizing, perspective)
             ELSE expect_fold(s, actions, 1, depth, perspective, maximizing,
                              IF maximizing THEN NEG_INF ELSE Frac(0, 1)))

\* The outcomes of the _expect_value calls of ExpectimaxAgent.select_action
expect_root(s, actions, depth) ==
    [i \in 1 .. Len(actions) |->
        expect_value(OthelloState_apply_action(s, actions[i]), depth - 1, FALSE,
                     s.player)]

Expectimax_select_action(s, depth) ==
    Bind(OthelloState_legal_actions(s), LAMBDA actions :
        IF actions = <<>> THEN Return(PASS_ACTION)
        ELSE best_action_loop(sorted(actions), expect_root(s, sorted(actions), depth),
                              1, PASS_ACTION, NEG_INF))

\* DFSAgent._dfs, built without a goal_test
RECURSIVE dfs_value(_, _, _, _, _)
RECURSIVE dfs_fold(_, _, _, _, _, _, _, _)
dfs_fold(s, actions, i, depth, depth_limit, perspective, maximizing, value) ==
    IF i > Len(actions) THEN Return(value)
    ELSE Bind(dfs_value(OthelloState_apply_action(s, actions[i]),
                        depth + 1, depth_limit, perspective, ~maximizing),
              LAMBDA v :
                 dfs_fold(s, actions, i + 1, depth, depth_limit, perspective,
                          maximizing,
                          IF maximizing THEN FracMax(value, v)
                          ELSE FracMin(value, v)))

dfs_value(s, depth, depth_limit, perspective, maximizing) ==
    IF depth >= depth_limit \/ OthelloState_is_terminal(s)
    THEN agent_evaluate(s, perspective)
    ELSE Bind(OthelloState_legal_actions(s), LAMBDA actions :
             IF actions = <<>>
             THEN dfs_value(OthelloState_apply_action(s, PASS_ACTION),
                            depth + 1, depth_limit, perspective, ~maximizing)
             ELSE dfs_fold(s, actions, 1, depth, depth_limit, perspective,
                           maximizing, IF maximizing THEN NEG_INF ELSE INF))

\* The outcomes of the _dfs calls of DFSAgent.select_action
dfs_root(s, actions, depth_limit) ==
    [i \in 1 .. Len(actions) |->
        dfs_value(OthelloState_apply_action(s, actions[i]), 1, depth_limit,
                  s.player, FALSE)]

DFS_select_action(s, depth_limit) ==
    Bind(OthelloState_legal_actions(s), LAMBDA actions :
        IF actions = <<>> THEN Return(PASS_ACTION)
        ELSE best_action_loop(sorted(actions), dfs_root(s, sorted(actions), depth_limit),
                              1, actions[1], NEG_INF))

\* The goal predicates a BFSAgent is built with: None, and two callables,
\* one true of every state and one true where the root mover is to move.
GoalTests == {"none", "always", "mover"}

\* self.goal_test and self.goal_test(node, perspective)
goal_test_holds(goal_test, node, perspective) ==
    CASE goal_test = "none" -> FALSE
      [] goal_test = "always" -> TRUE
      [] goal_test = "mover" -> node.player = perspective

\* BFSAgent._evaluate_action: the while loop over the queue of
\* <<node, depth>> pairs
RECURSIVE bfs_loop(_, _, _, _, _)
\* One pass of the loop, on the pair popped from the left of the queue
bfs_visit(node, depth, queue, best, depth_limit, perspective, goal_test) ==
    IF goal_test_holds(goal_test, node, perspective) THEN Return(INF)
    ELSE IF depth >= depth_limit \/ OthelloState_is_terminal(node)
    THEN Bind(agent_evaluate(node, perspective), LAMBDA ev :
             bfs_loop(queue, FracMax(best, ev), depth_limit, perspective, goal_test))
    ELSE Bind(OthelloState_legal_actions(node), LAMBDA legal :
             IF legal = <<>>
             THEN bfs_loop(Append(queue,
                                  <<OthelloState_apply_action(node, PASS_ACTION),
                                    depth + 1>>),
                           best, depth_limit, perspective, goal_test)
             ELSE bfs_loop(queue \o
                           [i \in 1 .. Len(legal) |->
                               <<OthelloState_apply_action(node, legal[i]),
                                 depth + 1>>],
                           best, depth_limit, perspective, goal_test))

bfs_loop(queue, best, depth_limit, perspective, goal_test) ==
    IF queue = <<>> THEN Return(best)
    ELSE bfs_visit(Head(queue)[1], Head(queue)[2], Tail(queue), best, depth_limit,
                   perspective, goal_test)

BFS_evaluate_action(s, action, depth_limit, perspective, goal_test) ==
    bfs_loop(<<<<OthelloState_apply_action(s, action), 1>>>>, NEG_INF, depth_limit,
             perspective, goal_test)

\* The outcomes of the _evaluate_action calls of BFSAgent.select_action, the
\* agent built without a goal_test
bfs_root(s, actions, depth_limit) ==
    [i \in 1 .. Len(actions) |->
        BFS_evaluate_action(s, actions[i], depth_limit, s.player, "none")]

BFS_select_action(s, depth_limit) ==
    Bind(OthelloState_legal_actions(s), LAMBDA actions :
        IF actions = <<>> THEN Return(PASS_ACTION)
        ELSE best_action_loop(sorted(actions), bfs_root(s, sorted(actions), depth_limit),
                              1, actions[1], NEG_INF))

\* The recursion shared by MinimaxAgent._max_value/_min_value,
\* AlphaBetaAgent._max_value/_min_value and ExpectimaxAgent._value, entered
\* at s, ply plies below the root, with depth left: the ply of the deepest
\* state it visits (alpha-beta visits a subset of these states).
RECURSIVE visit_depth(_, _, _)
visit_depth(s, depth, ply) ==
    IF depth = 0 \/ OthelloState_is_terminal(s) THEN Return(ply)
    ELSE Bind(OthelloState_legal_actions(s), LAMBDA actions :
             IF actions = <<>>
             THEN visit_depth(OthelloState_apply_action(s, PASS_ACTION), depth - 1,
                              ply + 1)
             ELSE LET below == {visit_depth(OthelloState_apply_action(s, actions[i]),
                                            depth - 1, ply + 1) :
                                   i \in 1 .. Len(actions)}
                  IN  IF \E r \in below : Raised(r)
                      THEN CHOOSE r \in below : Raised(r)
                      ELSE CHOOSE r \in below : \A o \in below : o.val <= r.val)

\* The nodes a search enters, each named by its path of actions from the
\* root: every call that runs self._info.nodes_expanded += 1 is one path.
\* rs holds the outcomes of the calls made below a node, in call order: the
\* first exception among them propagates, else their paths are joined to nodes.
visited_union(nodes, rs) ==
    IF \E i \in 1 .. Len(rs) : Raised(rs[i])
    THEN rs[CHOOSE i \in 1 .. Len(rs) :
                Raised(rs[i]) /\ \A j \in 1 .. (i - 1) : ~Raised(rs[j])]
    ELSE Return(nodes \cup UNION {rs[i].val : i \in 1 .. Len(rs)})

\* The action list a node loops over: [None] where legal_actions() is empty
pass_if_none(actions) == IF actions = <<>> THEN <<PASS_ACTION>> ELSE actions

\* MinimaxAgent._max_value/_min_value entered at s by path: the nodes entered
RECURSIVE minimax_visited(_, _, _, _)
minimax_visited(s, depth, perspective, path) ==
    IF depth = 0 \/ OthelloState_is_terminal(s)
    THEN Bind(agent_evaluate(s, perspective), LAMBDA value : Return({path}))
    ELSE Bind(OthelloState_legal_actions(s), LAMBDA actions :
             visited_union({path},
                 [i \in 1 .. Len(pass_if_none(actions)) |->
                     minimax_visited(
                         OthelloState_apply_action(s, pass_if_none(actions)[i]),
                         depth - 1, perspective,
                         Append(path, pass_if_none(actions)[i]))]))

\* The nodes entered during MinimaxAgent.select_action
Minimax_visited(s, depth) ==
    Bind(OthelloState_legal_actions(s), LAMBDA actions :
        visited_union({},
            [i \in 1 .. Len(actions) |->
                minimax_visited(OthelloState_apply_action(s, sorted(actions)[i]),
                                depth - 1, s.player, <<sorted(actions)[i]>>)]))

\* DFSAgent._dfs entered at s by path, built without a goal_test: the nodes
\* entered
RECURSIVE dfs_visited(_, _, _, _, _)
dfs_visited(s, depth, depth_limit, perspective, path) ==
    IF depth >= depth_limit \/ OthelloState_is_terminal(s)
    THEN Bind(agent_evaluate(s, perspective), LAMBDA value : Return({path}))
    ELSE Bind(OthelloState_legal_actions(s), LAMBDA actions :
             visited_union({path},
                 [i \in 1 .. Len(pass_if_none(actions)) |->
                     dfs_visited(
                         OthelloState_apply_action(s, pass_if_none(actions)[i]),
                         depth + 1, depth_limit, perspective,
                         Append(path, pass_if_none(actions)[i]))]))

\* The nodes entered during DFSAgent.select_action
DFS_visited(s, depth_limit) ==
    Bind(OthelloState_legal_actions(s), LAMBDA actions :
        visited_union({},
            [i \in 1 .. Len(actions) |->
                dfs_visited(OthelloState_apply_action(s, sorted(actions)[i]), 1,
                            depth_limit, s.player, <<sorted(actions)[i]>>)]))

\* AlphaBetaAgent._max_value/_min_value entered at s by path: the value
\* returned, the nodes entered and the cuts made (self.pruned += 1; break),
\* each cut with the node it was made at and the window it was made on.
RECURSIVE alphabeta_visited(_, _, _, _, _, _, _)
RECURSIVE alphabeta_visited_fold(_, _, _, _, _, _, _, _, _, _)
\* After value = max(value, ...) or min(value, ...), kept in acc: narrow the
\* window and break when alpha >= beta
alphabeta_visited_cut(s, actions, i, depth, alpha, beta, perspective, maximizing, path, acc) ==
    LET alpha2 == IF maximizing THEN FracMax(alpha, acc.value) ELSE alpha
        beta2 == IF maximizing THEN beta ELSE FracMin(beta, acc.value)
    IN  IF ~FracLess(alpha2, beta2)
        THEN Return([acc EXCEPT !.cuts = @ \cup {[node |-> path, alpha |-> alpha2,
                                                   beta |-> beta2]}])
        ELSE alphabeta_visited_fold(s, actions, i + 1, depth, alpha2, beta2,
                                    perspective, maximizing, path, acc)

alphabeta_visited_fold(s, actions, i, depth, alpha, beta, perspective, maximizing, path, acc) ==
    IF i > Len(actions) THEN Return(acc)
    ELSE Bind(alphabeta_visited(OthelloState_apply_action(s, actions[i]), depth - 1,
                                alpha, beta, perspective, ~maximizing,
                                Append(path, actions[i])),
              LAMBDA below :
                 alphabeta_visited_cut(s, actions, i, depth, alpha, beta, perspective,
                     maximizing, path,
                     [value |-> IF maximizing THEN FracMax(acc.value, below.value)
                                ELSE FracMin(acc.value, below.value),
                      visited |-> acc.visited \cup below.visited,
                      cuts |-> acc.cuts \cup below.cuts]))

alphabeta_visited(s, depth, alpha, beta, perspective, maximizing, path) ==
    IF depth = 0 \/ OthelloState_is_terminal(s)
    THEN Bind(agent_evaluate(s, perspective), LAMBDA value :
             Return([value |-> value, visited |-> {path}, cuts |-> {}]))
    ELSE Bind(OthelloState_legal_actions(s), LAMBDA actions :
             IF actions = <<>>
             THEN Bind(alphabeta_visited(OthelloState_apply_action(s, PASS_ACTION),
                                         depth - 1, alpha, beta, perspective,
                                         ~maximizing, Append(path, PASS_ACTION)),
                       LAMBDA below :
                           Return([below EXCEPT !.visited = @ \cup {path}]))
             ELSE alphabeta_visited_fold(s, actions, 1, depth, alpha, beta,
                      perspective, maximizing, path,
                      [value |-> IF maximizing THEN NEG_INF ELSE INF,
                       visited |-> {path}, cuts |-> {}]))

\* The nodes entered and the cuts made during AlphaBetaAgent.select_action:
\* every root action starts from the window (-inf, inf)
AlphaBeta_visited(s, depth) ==
    Bind(OthelloState_legal_actions(s), LAMBDA actions :
        Bind(visited_union({},
                 [i \in 1 .. Len(actions) |->
                     Bind(alphabeta_visited(
                              OthelloState_apply_action(s, sorted(actions)[i]),
                              depth - 1, NEG_INF, INF, s.player, FALSE,
                              <<sorted(actions)[i]>>),
                          LAMBDA below : Return({below}))]),
             LAMBDA below :
                 Return([visited |-> UNION {b.visited : b \in below},
                         cuts |-> UNION {b.cuts : b \in below}])))

\* The heap entries of AStarAgent are tuples (f, cost, action, state).
HeapItem(f, cost, action, s) == [f |-> f, cost |-> cost, action |-> action, state |-> s]

FracEq(a, b) == ~FracLess(a, b) /\ ~FracLess(b, a)

\* Python's a < b on two such tuples: the first differing component decides;
\* None against a coordinate, and two different OthelloState objects, have
\* no ordering and raise TypeError.
tuple_lt(a, b) ==
    IF ~FracEq(a.f, b.f) THEN Return(FracLess(a.f, b.f))
    ELSE IF a.cost # b.cost THEN Return(a.cost < b.cost)
    ELSE IF a.action # b.action
    THEN IF a.action = PASS_ACTION \/ b.action = PASS_ACTION
         THEN Raise("TypeError")
         ELSE Return(CoordLess(a.action, b.action))
    ELSE IF a.state # b.state THEN Raise("TypeError")
    ELSE Return(FALSE)

\* heapq._siftdown; positions are 0-based as in heapq, heap[pos + 1] is the
\* element at position pos
RECURSIVE heapq_siftdown(_, _, _, _)
heapq_siftdown(heap, startpos, pos, newitem) ==
    IF pos > startpos
    THEN Bind(tuple_lt(newitem, heap[((pos - 1) \div 2) + 1]), LAMBDA lt :
             IF lt
             THEN heapq_siftdown([heap EXCEPT ![pos + 1] = heap[((pos - 1) \div 2) + 1]],
                                 startpos, (pos - 1) \div 2, newitem)
             ELSE Return([heap EXCEPT ![pos + 1] = newitem]))
    ELSE Return([heap EXCEPT ![pos + 1] = newitem])

\* heapq.heappush
heapq_heappush(heap, item) == heapq_siftdown(Append(heap, item), 0, Len(heap), item)

\* heapq._siftup
RECURSIVE heapq_siftup(_, _, _, _)
\* heap[pos] = heap[childpos]; pos = childpos
heapq_siftup_move(heap, startpos, pos, newitem, childpos) ==
    heapq_siftup([heap EXCEPT ![pos + 1] = heap[childpos + 1]], startpos, childpos,
                 newitem)

heapq_siftup(heap, startpos, pos, newitem) ==
    IF 2 * pos + 1 < Len(heap)
    THEN IF 2 * pos + 2 < Len(heap)
         THEN Bind(tuple_lt(heap[2 * pos + 2], heap[2 * pos + 3]), LAMBDA lt :
                  heapq_siftup_move(heap, startpos, pos, newitem,
                                    IF ~lt THEN 2 * pos + 2 ELSE 2 * pos + 1))
         ELSE heapq_siftup_move(heap, startpos, pos, newitem, 2 * pos + 1)
    ELSE heapq_siftdown([heap EXCEPT ![pos + 1] = newitem], startpos, pos, newitem)

\* heapq.heappop of a non-empty heap: the popped item and the heap left
heapq_heappop(heap) ==
    IF Len(heap) > 1
    THEN Bind(heapq_siftup([SubSeq(heap, 1, Len(heap) - 1) EXCEPT ![1] = heap[Len(heap)]],
                           0, 0, heap[Len(heap)]),
              LAMBDA sifted : Return([item |-> heap[1], heap |-> sifted]))
    ELSE Return([item |-> heap[Len(heap)], heap |-> <<>>])

\* AStarAgent._estimate
AStar_estimate(s, player) ==
    Bind(OthelloState_evaluate(s, player), LAMBDA heuristic_value :
        Return(FracNeg(heuristic_value)))

\* The loops of astar.py lines 37-41 and 64-70: push one child per action;
\* first_action[i] is the root action recorded with the i-th child.
RECURSIVE astar_push(_, _, _, _, _, _, _)
\* One pass, on the child state
astar_push_child(pq, node, actions, i, cost, first_action, perspective, child) ==
    Bind(AStar_estimate(child, perspective), LAMBDA estimate :
        Bind(heapq_heappush(pq, HeapItem(FracAdd(Frac(cost, 1), estimate), cost,
                                         first_action[i], child)),
             LAMBDA pushed :
                astar_push(pushed, node, actions, i + 1, cost, first_action,
                           perspective)))

astar_push(pq, node, actions, i, cost, first_action, perspective) ==
    IF i > Len(actions) THEN Return(pq)
    ELSE astar_push_child(pq, node, actions, i, cost, first_action, perspective,
                          OthelloState_apply_action(node, actions[i]))

\* best_score[first_action] = max(value, best_score.get(first_action, -inf));
\* best_score is kept as the sequence of its items in insertion order
best_score_update(best_score, first_action, value) ==
    IF \E k \in 1 .. Len(best_score) : best_score[k][1] = first_action
    THEN [k \in 1 .. Len(best_score) |->
             IF best_score[k][1] = first_action
             THEN <<first_action, IF FracLess(value, best_score[k][2])
                                  THEN best_score[k][2] ELSE value>>
             ELSE best_score[k]]
    ELSE Append(best_score, <<first_action, value>>)

\* max(best_score.items(), key=value)[0]: the first item of greatest value
RECURSIVE best_score_max(_, _, _)
best_score_max(best_score, k, best) ==
    IF k > Len(best_score) THEN best[1]
    ELSE best_score_max(best_score, k + 1,
                        IF FracLess(best[2], best_score[k][2])
                        THEN best_score[k] ELSE best)

\* The while loop of astar.py lines 43-70; visited maps states to costs
RECURSIVE astar_search(_, _, _, _, _)
\* The expansion of a node that is no leaf: lines 61-70
astar_expand(pq, cost, first_action, node, visited, best_score, depth_limit, perspective, legal) ==
    Bind(astar_push(pq, node, legal, 1, cost + 1,
                    [i \in 1 .. Len(legal) |-> first_action], perspective),
         LAMBDA pushed :
            astar_search(pushed, visited, best_score, depth_limit, perspective))

\* One pass of the loop, on the popped entry: lines 45-70
astar_visit(pq, cost, first_action, node, visited, best_score, depth_limit, perspective) ==
    IF cost > depth_limit
    THEN astar_search(pq, visited, best_score, depth_limit, perspective)
    ELSE IF node \in DOMAIN visited /\ cost >= visited[node]
    THEN astar_search(pq, visited, best_score, depth_limit, perspective)
    ELSE IF OthelloState_is_terminal(node) \/ cost = depth_limit
    THEN Bind(OthelloState_evaluate(node, perspective), LAMBDA value :
             astar_search(pq,
                          [n \in DOMAIN visited \cup {node} |->
                              IF n = node THEN cost ELSE visited[n]],
                          best_score_update(best_score, first_action, value),
                          depth_limit, perspective))
    ELSE Bind(OthelloState_legal_actions(node), LAMBDA legal :
             astar_expand(pq, cost, first_action, node,
                          [n \in DOMAIN visited \cup {node} |->
                              IF n = node THEN cost ELSE visited[n]],
                          best_score, depth_limit, perspective,
                          IF legal = <<>> THEN <<PASS_ACTION>> ELSE legal))

astar_search(pq, visited, best_score, depth_limit, perspective) ==
    IF pq = <<>>
    THEN Return(IF best_score # <<>>
                THEN best_score_max(best_score, 2, best_score[1])
                ELSE PASS_ACTION)
    ELSE Bind(heapq_heappop(pq), LAMBDA popped :
             astar_visit(popped.heap, popped.item.cost, popped.item.action,
                         popped.item.state, visited, best_score, depth_limit,
                         perspective))

AStar_select_action(s, depth_limit) ==
    Bind(OthelloState_legal_actions(s), LAMBDA actions :
        IF actions = <<>> THEN Return(PASS_ACTION)
        ELSE Bind(astar_push(<<>>, s, actions, 1, 1, actions, s.player), LAMBDA pq :
                 astar_search(pq, << >>, <<>>, depth_limit, s.player)))

\* The action one step of MonteCarloTreeSearch._rollout applies: None when
\* there is no move, else _biased_choice(moves), the lowest corner among the
\* moves or random.choice(moves). random.choice is a fixed but unspecified
\* function of the agent's own generator, hence CHOOSE.
rollout_move(moves) ==
    IF moves = <<>> THEN PASS_ACTION
    ELSE IF \E i \in 1 .. Len(moves) : moves[i] \in {<<0, 0>>, <<0, 7>>, <<7, 0>>, <<7, 7>>}
    THEN moves[CHOOSE i \in 1 .. Len(moves) :
                   /\ moves[i] \in {<<0, 0>>, <<0, 7>>, <<7, 0>>, <<7, 7>>}
                   /\ \A j \in 1 .. Len(moves) :
                          moves[j] \in {<<0, 0>>, <<0, 7>>, <<7, 0>>, <<7, 7>>} =>
                              ~CoordLess(moves[j], moves[i])]
    ELSE moves[CHOOSE i \in 1 .. Len(moves) : TRUE]

\* The while loop of MonteCarloTreeSearch._rollout: it ends at a terminal
\* state, at rollout_limit steps or after the second pass in a row, with the
\* state reached and the two counters.
RECURSIVE mcts_rollout_loop(_, _, _, _)
mcts_rollout_loop(cur, steps, passes, rollout_limit) ==
    IF passes >= 2 \/ OthelloState_is_terminal(cur) \/ steps >= rollout_limit
    THEN Return([cur |-> cur, steps |-> steps, passes |-> passes])
    ELSE Bind(OthelloState_legal_actions(cur), LAMBDA moves :
             mcts_rollout_loop(OthelloState_apply_action(cur, rollout_move(moves)),
                               IF moves = <<>> THEN steps ELSE steps + 1,
                               IF moves = <<>> THEN passes + 1 ELSE 0,
                               rollout_limit))

\* MonteCarloTreeSearch._rollout(s): the playout valued for the side to move
\* in s
mcts_rollout(s, rollout_limit) ==
    Bind(mcts_rollout_loop(s, 0, 0, rollout_limit), LAMBDA end :
        Return(OthelloState_outcome(end.cur, s.player)))

\* SearchNode(state=s, parent=parent). The tree is the sequence of the nodes
\* created, the root first; parent is an index into it (0 for None),
\* children the dict's items in insertion order, and listed tells whether
\* untried_actions is a list yet (it starts as None).
SearchNode(s, parent) ==
    [state |-> s, parent |-> parent, children |-> <<>>, listed |-> FALSE,
     untried_actions |-> <<>>, visits |-> 0, value_sum |-> 0]

\* SearchNode.q_value
q_value(node) == IF node.visits # 0 THEN Frac(node.value_sum, node.visits) ELSE Frac(0, 1)

\* _ucb_score(parent_visits, a) > _ucb_score(parent_visits, b) for two
\* nodes visited at least once under a parent visited at least once. The
\* exploration term c * sqrt(log(parent_visits + 1) / (visits + 1e-9)) is
\* positive and falls as visits grow, so the scores compare as the q_values
\* when the visits are equal, and a node with fewer visits and no smaller
\* q_value scores higher; the other cases rest on the values of sqrt and
\* log and are left open.
ucb_greater(parent_visits, a, b) ==
    IF a.visits = b.visits
    THEN (IF FracLess(q_value(b), q_value(a)) THEN "yes" ELSE "no")
    ELSE IF a.visits < b.visits
    THEN (IF FracLess(q_value(a), q_value(b)) THEN "open" ELSE "yes")
    ELSE (IF FracLess(q_value(b), q_value(a)) THEN "open" ELSE "no")

\* if node.untried_actions is None: node.untried_actions = list(legal_actions())
mcts_list(tree, node) ==
    IF tree[node].listed THEN Return(tree)
    ELSE Bind(OthelloState_legal_actions(tree[node].state), LAMBDA actions :
             Return([tree EXCEPT ![node].listed = TRUE,
                                 ![node].untried_actions = actions]))

\* The for loop of _select over node.children from the i-th item on: best is
\* the best child so far (0 for None, whose score -1e18 every child beats).
RECURSIVE mcts_best_child(_, _, _, _)
mcts_best_child(tree, node, i, best) ==
    IF i > Len(tree[node].children) THEN Return(best)
    ELSE LET child == tree[node].children[i].node
             greater == IF best = 0 THEN "yes"
                        ELSE ucb_greater(tree[node].visits, tree[child], tree[best])
         IN  IF greater = "open" THEN Raise("NotModelled")
             ELSE mcts_best_child(tree, node, i + 1,
                                  IF greater = "yes" THEN child ELSE best)

\* MonteCarloTreeSearch._select(node): the tree and the node returned
RECURSIVE mcts_select(_, _)
mcts_select(tree, node) ==
    Bind(mcts_list(tree, node), LAMBDA listed :
        IF listed[node].untried_actions # <<>> \/ listed[node].children = <<>>
        THEN Return([tree |-> listed, node |-> node])
        ELSE Bind(mcts_best_child(listed, node, 1, 0), LAMBDA best_child :
                 mcts_select(listed, best_child)))

\* node.untried_actions.pop() and the child it leads to, added to the tree
mcts_expand_pop(tree, node) ==
    LET untried == tree[node].untried_actions
        mv == untried[Len(untried)]
        child == SearchNode(OthelloState_apply_action(tree[node].state, mv), node)
    IN  [tree |-> Append([tree EXCEPT
                              ![node].untried_actions = SubSeq(untried, 1, Len(untried) - 1),
                              ![node].children =
                                  Append(@, [mv |-> mv, node |-> Len(tree) + 1])],
                         child),
         node |-> Len(tree) + 1]

\* MonteCarloTreeSearch._expand(node): the tree and the node returned
mcts_expand(tree, node) ==
    Bind(mcts_list(tree, node), LAMBDA listed :
        IF listed[node].untried_actions # <<>>
        THEN Return(mcts_expand_pop(listed, node))
        ELSE Return([tree |-> listed, node |-> node]))

\* MonteCarloTreeSearch._backup(node, v); cur is None when node = 0
RECURSIVE mcts_backup(_, _, _)
mcts_backup(tree, node, v) ==
    IF node = 0 THEN tree
    ELSE mcts_backup([tree EXCEPT ![node].visits = @ + 1, ![node].value_sum = @ + v],
                     tree[node].parent, -v)

\* The for loop of MonteCarloTreeSearch.search (lines 124-131) with n
\* iterations left: the tree it ends with. rollouts lists, for the claims,
\* the node and the value each iteration handed to _backup.
RECURSIVE mcts_iterate(_, _, _, _)
mcts_iterate(tree, n, rollouts, rollout_limit) ==
    IF n = 0 THEN Return([tree |-> tree, rollouts |-> rollouts])
    ELSE Bind(mcts_select(tree, 1), LAMBDA selected :
         Bind(mcts_expand(selected.tree, selected.node), LAMBDA expanded :
         Bind(mcts_rollout(expanded.tree[expanded.node].state, rollout_limit),
              LAMBDA value :
                  mcts_iterate(mcts_backup(expanded.tree, expanded.node, value), n - 1,
                               Append(rollouts, [node |-> expanded.node,
                                                 value |-> value]),
                               rollout_limit))))

\* MonteCarloTreeSearch.search up to line 131: the tree built. A root without
\* legal actions is left alone.
MCTS_tree(s, iterations, rollout_limit) ==
    Bind(mcts_list(<<SearchNode(s, 0)>>, 1), LAMBDA tree :
        IF tree[1].untried_actions = <<>>
        THEN Return([tree |-> tree, rollouts |-> <<>>])
        ELSE mcts_iterate(tree, iterations, <<>>, rollout_limit))

\* MonteCarloTreeSearch._distribution_from_root; a dict is a function on its
\* keys and {} is <<>>.
distribution_from_root(tree) ==
    LET children == tree[1].children
        total_visits == SumOver(1 .. Len(children),
                                [i \in 1 .. Len(children) |-> tree[children[i].node].visits])
    IN  IF total_visits <= 0 THEN <<>>
        ELSE [mv \in {children[i].mv : i \in 1 .. Len(children)} |->
                 LET i == CHOOSE j \in 1 .. Len(children) : children[j].mv = mv
                 IN  Frac(tree[children[i].node].visits, total_visits)]

\* MonteCarloTreeSearch.search: the SearchResult, with the number of
\* iterations run.
MCTS_search(s, iterations, rollout_limit) ==
    Bind(mcts_list(<<SearchNode(s, 0)>>, 1), LAMBDA root :
        IF root[1].untried_actions = <<>>
        THEN Return([value |-> Frac(OthelloState_outcome(s, s.player), 1),
                     move_probabilities |-> <<>>, iterations |-> 0])
        ELSE Bind(mcts_iterate(root, iterations, <<>>, rollout_limit), LAMBDA built :
                 Return([value |-> FracMax(Frac(-1, 1),
                                           FracMin(Frac(1, 1), q_value(built.tree[1]))),
                         move_probabilities |-> distribution_from_root(built.tree),
                         iterations |-> Len(built.rollouts)])))

\* MonteCarloTreeSearch.select_action with the default rollout_limit:
\* whatever search() returns, line 77 then calls self.set_last_search_info,
\* which neither the class nor Agent defines.
MCTS_select_action(s, iterations) ==
    Bind(MCTS_search(s, iterations, 150), LAMBDA result : Raise("AttributeError"))

\* create_agent(name, depth, iterations).select_action(state)
AgentNames ==
    {"reflex", "minimax", "alphabeta", "expectimax", "bfs", "dfs", "astar", "mcts"}

select_action(name, s, depth) ==
    CASE name = "reflex" -> Reflex_select_action(s)
      [] name = "minimax" -> Minimax_select_action(s, depth)
      [] name = "alphabeta" -> AlphaBeta_select_action(s, depth)
      [] name = "expectimax" -> Expectimax_select_action(s, depth)
      [] name = "bfs" -> BFS_select_action(s, depth)
      [] name = "dfs" -> DFS_select_action(s, depth)
      [] name = "astar" -> AStar_select_action(s, depth)
      [] name = "mcts" -> MCTS_select_action(s, depth)

\* ------------------------------------------------------------- the game
\* agents, heap and held belong to the arena below: the agent objects, the
\* AgentInfo objects they have created, and the AgentInfo a caller holds.
VARIABLES state, ply, last, out, agents, heap, held

vars == <<state, ply, last, out, agents, heap, held>>

Coords == {<<r, c>> : r \in 0 .. (BOARD_SIZE - 1), c \in 0 .. (BOARD_SIZE - 1)}
Actions == Coords \cup {PASS_ACTION}

\* The layout of the pass tests: black to move has no coordinate move.
\*   ..BBBBWB / BBBBBWWB / BWBWWWWB / BWBWWWWB /
\*   BWWWBWWB / BWBWWBWB / BWWWWWBB / BWWBBBBB
PassLayout ==
    [black |->
        {2, 3, 4, 5, 7, 8, 9, 10, 11, 12, 15, 16, 18, 23, 24, 26, 31, 32, 36,
        39, 40, 42, 45, 47, 48, 54, 55, 56, 59, 60, 61, 62, 63},
     white |->
        {6, 13, 14, 17, 19, 20, 21, 22, 25, 27, 28, 29, 30, 33, 34, 35, 37,
        38, 41, 43, 44, 46, 49, 50, 51, 52, 53, 57, 58},
     player |-> PLAYER_BLACK]

\* A late position of a game played from the opening: black must pass, and
\* after white's reply neither side can move although square 7 is empty.
\*   .WWWWWW. / BBWBWWWW / BBWWWWWW / BBBWWBWW /
\*   BBWWBWBW / BBWBBBWW / WWBBWBWW / WWWWWWWW
StuckLayout ==
    [black |->
        {8, 9, 11, 16, 17, 24, 25, 26, 29, 32, 33, 36, 38, 40, 41, 43, 44, 45,
        50, 51, 53},
     white |->
        {1, 2, 3, 4, 5, 6, 10, 12, 13, 14, 15, 18, 19, 20, 21, 22, 23, 27, 28,
        30, 31, 34, 35, 37, 39, 42, 46, 47, 48, 49, 52, 54, 55, 56, 57, 58,
        59, 60, 61, 62, 63},
     player |-> PLAYER_BLACK]

\* OthelloState(): all fields default, so __post_init__ installs the opening.
Opening == OthelloState({}, {}, PLAYER_BLACK)

StartStates ==
    {Opening,
     OthelloState(PassLayout.black, PassLayout.white, PassLayout.player),
     OthelloState(StuckLayout.black, StuckLayout.white, StuckLayout.player)}

Init ==
    /\ state \in StartStates
    /\ ply = 0
    /\ last = [action |-> PASS_ACTION, prev |-> state]
    /\ out = [op |-> "none"]
    /\ agents = <<>> /\ heap = <<>> /\ held = [agent |-> 0]

\* state = state.apply_action(action), for any action a caller may pass.
\* The queries below change no state, so the game goes on from the states
\* where none is recorded.
ApplyAction(action) ==
    /\ ply < MaxPly
    /\ out.op = "none"
    /\ state' = OthelloState_apply_action(state, action)
    /\ ply' = ply + 1
    /\ last' = [action |-> action, prev |-> state]
    /\ out' = [op |-> "none"]
    /\ UNCHANGED <<agents, heap, held>>

\* state.legal_actions()
LegalActions ==
    /\ out.op = "none"
    /\ out' = [op |-> "legal_actions", res |-> OthelloState_legal_actions(state)]
    /\ UNCHANGED <<state, ply, last, agents, heap, held>>

Depths == 0 .. MaxDepth

\* create_agent(name, depth=depth, iterations=depth).select_action(state)
SelectAction(name, depth) ==
    /\ out.op = "none"
    /\ out' = [op |-> "select_action", agent |-> name, depth |-> depth,
               res |-> select_action(name, state, depth)]
    /\ UNCHANGED <<state, ply, last, agents, heap, held>>

\* The root values of MinimaxAgent and AlphaBetaAgent on the same state
RootValues(depth) ==
    /\ out.op = "none"
    /\ out' = [op |-> "root_values", depth |-> depth,
               minimax |-> Minimax_root_values(state, depth),
               alphabeta |-> AlphaBeta_root_values(state, depth)]
    /\ UNCHANGED <<state, ply, last, agents, heap, held>>

\* MonteCarloTreeSearch(iterations=n, rollout_limit=5).search(state)
Search(iterations) ==
    /\ out.op = "none"
    /\ out' = [op |-> "search", iterations |-> iterations,
               res |-> MCTS_search(state, iterations, 5)]
    /\ UNCHANGED <<state, ply, last, agents, heap, held>>

\* BFSAgent(depth_limit, goal_test=goal_test)._evaluate_action(state, action,
\* state.current_player), on an action select_action would pass
EvaluateAction(depth_limit, goal_test) ==
    /\ out.op = "none"
    /\ \E m \in legal_moves_mask(player_bits_of(state)[1], player_bits_of(state)[2]) :
          out' = [op |-> "evaluate_action", action |-> bit_to_coord(m),
                  depth_limit |-> depth_limit, goal_test |-> goal_test,
                  res |-> BFS_evaluate_action(state, bit_to_coord(m), depth_limit,
                                              state.player, goal_test)]
    /\ UNCHANGED <<state, ply, last, agents, heap, held>>

\* MonteCarloTreeSearch(rollout_limit=rollout_limit)._rollout(state)
Rollout(rollout_limit) ==
    /\ out.op = "none"
    /\ out' = [op |-> "rollout", rollout_limit |-> rollout_limit,
               res |-> mcts_rollout(state, rollout_limit)]
    /\ UNCHANGED <<state, ply, last, agents, heap, held>>

\* MonteCarloTreeSearch()._ucb_score(parent_visits, a) against
\* _ucb_score(parent_visits, b), for two children a and b of one node
UcbScore(parent_visits, visits_a, value_sum_a, visits_b, value_sum_b) ==
    /\ out.op = "none"
    /\ \E child \in {SearchNode(state, 1)} :
          out' = [op |-> "ucb_score", parent_visits |-> parent_visits,
                  a |-> [child EXCEPT !.visits = visits_a, !.value_sum = value_sum_a],
                  b |-> [child EXCEPT !.visits = visits_b, !.value_sum = value_sum_b],
                  greater |-> ucb_greater(parent_visits,
                      [child EXCEPT !.visits = visits_a, !.value_sum = value_sum_a],
                      [child EXCEPT !.visits = visits_b, !.value_sum = value_sum_b])]
    /\ UNCHANGED <<state, ply, last, agents, heap, held>>

Next ==
    \/ \E action \in Actions : ApplyAction(action)
    \/ LegalActions
    \/ \E name \in AgentNames : \E depth \in Depths : SelectAction(name, depth)

Spec == Init /\ [][Next]_vars

\* The same game, asked for what the searches compute on the way to an action
NextSearch ==
    \/ \E action \in Actions : ApplyAction(action)
    \/ \E depth \in Depths : RootValues(depth)
    \/ \E iterations \in Depths : Search(iterations)
    \/ \E depth_limit \in 1 .. MaxDepth : \E goal_test \in GoalTests :
          EvaluateAction(depth_limit, goal_test)
    \/ \E rollout_limit \in Depths : Rollout(rollout_limit)

SpecSearch == Init /\ [][NextSearch]_vars

\* The scores _select compares, on the statistics a search can leave in two
\* children of a node: each visited at least once and no more often than
\* the node, each value_sum a sum of that many outcomes.
NextUcb ==
    \E parent_visits \in 1 .. MaxVisits :
       \E visits_a \in 1 .. parent_visits : \E visits_b \in 1 .. parent_visits :
          \E value_sum_a \in (-visits_a) .. visits_a :
             \E value_sum_b \in (-visits_b) .. visits_b :
                UcbScore(parent_visits, visits_a, value_sum_a, visits_b, value_sum_b)

SpecUcb == Init /\ [][NextUcb]_vars

\* ------------------------------------------------- the rule functions alone
\* Index sequences on the bitboard.  The first four are geometric lines
\* (row 0, column 0, the two long diagonals); the last four step by the same
\* index increments (1, 9, 7) but cross the left/right edge, where a shift
\* that is not masked would wrap.
Lines ==
    <<[i \in 1 .. 8 |-> i - 1],
      [i \in 1 .. 8 |-> 8 * (i - 1)],
      [i \in 1 .. 8 |-> 9 * (i - 1)],
      [i \in 1 .. 8 |-> 7 * i],
      [i \in 1 .. 8 |-> 5 + i],
      [i \in 1 .. 8 |-> 9 * i - 2],
      [i \in 1 .. 8 |-> 7 * (i - 1)],
      [i \in 1 .. 8 |-> 8 + 7 * (i - 1)]>>

LineLen(L) == IF MaxLine < Len(L) THEN MaxLine ELSE Len(L)

\* Every colouring (empty, black, white) of the first MaxLine squares of a line
LineLayouts ==
    {[black |-> {Lines[k][i] : i \in {j \in 1 .. LineLen(Lines[k]) : c[j] = "b"}},
      white |-> {Lines[k][i] : i \in {j \in 1 .. LineLen(Lines[k]) : c[j] = "w"}}] :
        k \in 1 .. 4, c \in [1 .. LineLen(Lines[1]) -> {"e", "b", "w"}]}
    \cup
    {[black |-> {Lines[k][i] : i \in {j \in 1 .. LineLen(Lines[k]) : c[j] = "b"}},
      white |-> {Lines[k][i] : i \in {j \in 1 .. LineLen(Lines[k]) : c[j] = "w"}}] :
        k \in 5 .. 8, c \in [1 .. LineLen(Lines[1]) -> {"e", "b", "w"}]}

\* One disc of a colour, a run of n discs of the other colour behind it,
\* along a geometric line, in both directions and both colourings
RunLayouts ==
    UNION {{[black |-> {Lines[k][1]}, white |-> {Lines[k][i] : i \in 2 .. (n + 1)}],
            [white |-> {Lines[k][1]}, black |-> {Lines[k][i] : i \in 2 .. (n + 1)}],
            [black |-> {Lines[k][8]}, white |-> {Lines[k][8 - i] : i \in 1 .. n}],
            [white |-> {Lines[k][8]}, black |-> {Lines[k][8 - i] : i \in 1 .. n}]} :
           k \in 1 .. 4, n \in 1 .. 7}

\* The terminal position that follows StuckLayout: square 7 stays empty.
StuckFinal ==
    LET s1 == OthelloRules_apply_action(StuckLayout.black, StuckLayout.white,
                                        StuckLayout.player, PASS_ACTION)
    IN  OthelloRules_apply_action(s1.black, s1.white, s1.player, <<0, 0>>)

BoardLayouts ==
    {[black |-> s.black, white |-> s.white] :
        s \in {starting_position, PassLayout, StuckLayout, StuckFinal}}
    \cup {[black |-> FULL \ PassLayout.white, white |-> PassLayout.white],
          [black |-> {}, white |-> {}]}

RuleInputs == LineLayouts \cup RunLayouts \cup BoardLayouts

\* The squares a move is tried on: the discs and every square whose index
\* is one shift away from a disc.
ProbeSquares(black, white) ==
    LET discs == black \cup white
    IN  IF Cardinality(discs) > 2 * BOARD_SIZE THEN FULL
        ELSE (discs \cup {i + d : i \in discs, d \in {1, 7, 8, 9, -1, -7, -8, -9}})
             \cap FULL

Players == {PLAYER_BLACK, PLAYER_WHITE}

InitRules ==
    /\ \E l \in RuleInputs :
          state = [black |-> l.black, white |-> l.white, player |-> PLAYER_BLACK]
    /\ ply = 0
    /\ last = [action |-> PASS_ACTION, prev |-> state]
    /\ out = [op |-> "none"]
    /\ agents = <<>> /\ heap = <<>> /\ held = [agent |-> 0]

\* legal_moves_mask(player_bits, opp_bits) for the side p
CallLegalMovesMask(p) ==
    /\ out.op = "none"
    /\ LET s == [state EXCEPT !.player = p]
           pb == player_bits_of(s)
       IN  out' = [op |-> "legal_moves_mask", player |-> p, arg |-> -1,
                   res |-> legal_moves_mask(pb[1], pb[2])]
    /\ UNCHANGED <<state, ply, last, agents, heap, held>>

\* flips_for_move(1 << m, player_bits, opp_bits) for the side p
CallFlipsForMove(p, m) ==
    /\ out.op = "none"
    /\ LET s == [state EXCEPT !.player = p]
           pb == player_bits_of(s)
       IN  out' = [op |-> "flips_for_move", player |-> p, arg |-> m,
                   res |-> flips_for_move({m}, pb[1], pb[2])]
    /\ UNCHANGED <<state, ply, last, agents, heap, held>>

\* is_terminal(black, white, p)
CallIsTerminal(p) ==
    /\ out.op = "none"
    /\ out' = [op |-> "is_terminal", player |-> p, arg |-> -1,
               res |-> OthelloRules_is_terminal(state.black, state.white, p)]
    /\ UNCHANGED <<state, ply, last, agents, heap, held>>

NextRules ==
    \/ \E p \in Players : CallLegalMovesMask(p)
    \/ \E p \in Players : \E m \in ProbeSquares(state.black, state.white) :
          CallFlipsForMove(p, m)
    \/ \E p \in Players : CallIsTerminal(p)

SpecRules == InitRules /\ [][NextRules]_vars

\* ------------------------------------------------------------- the arena
\* AgentInfo(): the metrics of a new agent; a dict is a function on its keys.
AgentInfo ==
    [nodes_expanded |-> 0, total_time |-> 0, move_count |-> 0, per_phase |-> <<>>,
     extra |-> <<>>]

\* agent.select_action(s) for the agent classes the arena plays; an agent is
\* a record of its class name, its depth or iteration budget, its seed, the
\* number of values its own generator has produced and its _info reference
\* (the agents start with the objects 1 and 2), with the select_action calls
\* made on it since its last reset and their outcomes.
Agent_select_action(agent, s) ==
    CASE agent.name = "reflex" -> Reflex_select_action(s)
      [] agent.name = "minimax" -> Minimax_select_action(s, agent.depth)
      [] agent.name = "mcts" -> MCTS_select_action(s, agent.depth)

\* The while loop of play_match. agent.clear_last_search_info() at line 44
\* is an attribute no agent class defines.
RECURSIVE play_match_loop(_, _, _, _)
play_match_loop(black, white, s, moves) ==
    IF OthelloState_is_terminal(s)
    THEN Return([winner |-> winner(s.black, s.white), final_state |-> s,
                 moves_played |-> moves])
    ELSE Bind(Raise("AttributeError"), LAMBDA cleared :
             Bind(Agent_select_action(IF s.player = PLAYER_BLACK THEN black ELSE white, s),
                  LAMBDA action :
                      play_match_loop(black, white, OthelloState_apply_action(s, action),
                                      moves + 1)))

\* The for loop of run_tournament from game_idx on; wins is keyed by the
\* agents' names, one key when the two names are equal.
RECURSIVE run_tournament_loop(_, _, _, _, _, _)
run_tournament_loop(agent_a, agent_b, games, game_idx, wins, draws) ==
    IF game_idx >= games
    THEN Return([wins |-> wins, draws |-> draws, games |-> games])
    ELSE Bind(play_match_loop(IF game_idx % 2 = 0 THEN agent_a ELSE agent_b,
                              IF game_idx % 2 = 0 THEN agent_b ELSE agent_a,
                              Opening, 0),
              LAMBDA result :
                  run_tournament_loop(agent_a, agent_b, games, game_idx + 1,
                      IF result.winner = PLAYER_BLACK
                      THEN [wins EXCEPT ![IF game_idx % 2 = 0 THEN agent_a.name
                                          ELSE agent_b.name] = @ + 1]
                      ELSE IF result.winner = PLAYER_WHITE
                      THEN [wins EXCEPT ![IF game_idx % 2 = 0 THEN agent_b.name
                                          ELSE agent_a.name] = @ + 1]
                      ELSE wins,
                      IF result.winner \in {PLAYER_BLACK, PLAYER_WHITE} THEN draws
                      ELSE draws + 1))

run_tournament(agent_a, agent_b, games) ==
    run_tournament_loop(agent_a, agent_b, games, 0,
                        [n \in {agent_a.name, agent_b.name} |-> 0], 0)

AgentIds == {1, 2}

\* The agents two create_agent calls build, each with its new AgentInfo,
\* and the state they are asked about.
InitArena ==
    /\ state \in {Opening, OthelloState_of(StuckFinal)}
    /\ ply = 0
    /\ last = [action |-> PASS_ACTION, prev |-> state]
    /\ out = [op |-> "none"]
    /\ agents \in [AgentIds ->
                     [name : {"reflex", "minimax", "mcts"}, depth : {1}, seed : {0},
                      draws : {0}, info : AgentIds, calls : {0}, log : {<<>>}]]
    /\ \A a \in AgentIds : agents[a].info = a
    /\ heap = <<AgentInfo, AgentInfo>>
    /\ held = [agent |-> 0]

\* agent.reset(): self._info = AgentInfo(), a new object
reset(a, ags, hp) ==
    [agents |-> [ags EXCEPT ![a].info = Len(hp) + 1, ![a].calls = 0],
     heap |-> Append(hp, AgentInfo)]

Reset(a) ==
    /\ Len(heap) < MaxObjects
    /\ agents' = reset(a, agents, heap).agents
    /\ heap' = reset(a, agents, heap).heap
    /\ out' = [op |-> "reset", agent |-> a, before |-> agents[a]]
    /\ UNCHANGED <<state, ply, last, held>>

\* agent.info(): return self._info, the object itself; the caller keeps the
\* reference and the values it read. One such reference is followed.
Info(a) ==
    /\ held.agent = 0
    /\ held' = [agent |-> a, ref |-> agents[a].info, seen |-> heap[agents[a].info]]
    /\ out' = [op |-> "info", agent |-> a]
    /\ UNCHANGED <<state, ply, last, agents, heap>>

\* agent.select_action(state). The exception of state.legal_actions() leaves
\* before any statement that updates self._info; a call that returns has
\* gone through self._info.timing.record(timer.elapsed) and has counted its
\* nodes, both measured values.
AgentSelectAction(a) ==
    /\ Len(agents[1].log) + Len(agents[2].log) < MaxCalls
    /\ \E res \in {Agent_select_action(agents[a], state)} :
          /\ \E elapsed \in 0 .. 1 : \E nodes \in 0 .. 1 :
                heap' = IF Raised(res) THEN heap
                        ELSE [heap EXCEPT ![agents[a].info].total_time = @ + elapsed,
                                          ![agents[a].info].move_count = @ + 1,
                                          ![agents[a].info].nodes_expanded = @ + nodes]
          /\ agents' = [agents EXCEPT ![a].calls = @ + 1, ![a].log = Append(@, res)]
          /\ out' = [op |-> "select_action", agent |-> a, depth |-> agents[a].depth,
                     res |-> res]
    /\ UNCHANGED <<state, ply, last, held>>

\* play_match(agents[b], agents[w], initial_state=state): both agents are
\* reset before the loop.
PlayMatch(b, w) ==
    /\ b # w
    /\ Len(heap) + 2 <= MaxObjects
    /\ \E r \in {reset(b, agents, heap)} :
          /\ agents' = reset(w, r.agents, r.heap).agents
          /\ heap' = reset(w, r.agents, r.heap).heap
    /\ out' = [op |-> "play_match", black |-> b, white |-> w,
               res |-> play_match_loop(agents[b], agents[w], state, 0)]
    /\ UNCHANGED <<state, ply, last, held>>

\* run_tournament(agents[1], agents[2], games): every game it starts resets
\* its black and then its white agent, and the first exception ends the
\* tournament.
RunTournament(games) ==
    /\ \E res \in {run_tournament(agents[1], agents[2], games)} :
       \E started \in {IF Raised(res) /\ games > 0 THEN 1 ELSE games} :
          /\ Len(heap) + 2 * started <= MaxObjects
          /\ out' = [op |-> "run_tournament", games |-> games, res |-> res]
          /\ heap' = heap \o [i \in 1 .. 2 * started |-> AgentInfo]
          /\ agents' = IF started = 0 THEN agents
                       ELSE [a \in AgentIds |->
                                [agents[a] EXCEPT !.calls = 0,
                                    !.info = Len(heap) + 2 * (started - 1) +
                                             (IF (a = 1) = (started % 2 = 1) THEN 1 ELSE 2)]]
    /\ UNCHANGED <<state, ply, last, held>>

NextArena ==
    \/ \E a \in AgentIds : Reset(a)
    \/ \E a \in AgentIds : Info(a)
    \/ \E a \in AgentIds : AgentSelectAction(a)
    \/ \E b \in AgentIds : \E w \in AgentIds : PlayMatch(b, w)
    \/ \E games \in 0 .. MaxGames : RunTournament(games)

SpecArena == InitArena /\ [][NextArena]_vars

\* ------------------------------------------------ the rules, by coordinates
\* The board as rows and columns, with no bit arithmetic: the statement the
\* rule functions are compared with.
Square(r, c) == r * BOARD_SIZE + c
OnBoard(r, c) == r \in 0 .. (BOARD_SIZE - 1) /\ c \in 0 .. (BOARD_SIZE - 1)
Steps == {<<dr, dc>> \in {-1, 0, 1} \X {-1, 0, 1} : <<dr, dc>> # <<0, 0>>}

\* The squares of the run of n opponent discs that starts next to (r, c) in
\* direction st and is ended by an own disc; empty if there is no such run.
RunFrom(r, c, st, own, opp) ==
    LET Good(n) ==
            /\ \A i \in 1 .. n :
                  /\ OnBoard(r + i * st[1], c + i * st[2])
                  /\ Square(r + i * st[1], c + i * st[2]) \in opp
            /\ OnBoard(r + (n + 1) * st[1], c + (n + 1) * st[2])
            /\ Square(r + (n + 1) * st[1], c + (n + 1) * st[2]) \in own
    IN  UNION {{Square(r + i * st[1], c + i * st[2]) : i \in 1 .. n} :
               n \in {k \in 1 .. (BOARD_SIZE - 2) : Good(k)}}

FlippedBy(m, own, opp) ==
    UNION {RunFrom(m \div BOARD_SIZE, m % BOARD_SIZE, st, own, opp) : st \in Steps}

IsLegalSquare(m, own, opp) == m \notin (own \cup opp) /\ FlippedBy(m, own, opp) # {}

LegalSquares(own, opp) == {m \in FULL : IsLegalSquare(m, own, opp)}

CoordsOf(mask) == {bit_to_coord(i) : i \in mask}

\* The arguments of the recorded call
OutOwn == player_bits_of([state EXCEPT !.player = out.player])[1]
OutOpp == player_bits_of([state EXCEPT !.player = out.player])[2]

\* C3: legal_moves_mask(own, opp) holds exactly the empty squares from which,
\* in one of the 8 directions, a run of one or more opponent discs is ended
\* by an own disc, no run crossing the left/right edge; the opening gives
\* exactly (2,3), (3,2), (4,5), (5,4).
C3_LegalMovesMask ==
    out.op = "legal_moves_mask" =>
        /\ out.res = LegalSquares(OutOwn, OutOpp)
        /\ (state.black = starting_position.black
            /\ state.white = starting_position.white
            /\ out.player = PLAYER_BLACK)
           => CoordsOf(out.res) = {<<2, 3>>, <<3, 2>>, <<4, 5>>, <<5, 4>>}

\* Own disc on (0,6), opponent disc on (0,7), (1,0) empty: the run ends at
\* the right edge and (1,0) is no move.
C3_Witness ==
    /\ out.op = "legal_moves_mask"
    /\ 6 \in OutOwn /\ 7 \in OutOpp /\ 8 \notin (OutOwn \cup OutOpp)
    /\ 8 \notin out.res

\* C6: is_terminal is true exactly when all 64 squares are occupied or
\* neither the side to move nor the opponent has a legal coordinate move.
C6_IsTerminal ==
    out.op = "is_terminal" =>
        (out.res <=>
            \/ Cardinality(state.black \cup state.white) = NumSquares
            \/ (LegalSquares(OutOwn, OutOpp) = {} /\ LegalSquares(OutOpp, OutOwn) = {}))

\* is_terminal answered false for a side that cannot move while the other can
C6_Witness ==
    /\ out.op = "is_terminal"
    /\ out.res = FALSE
    /\ LegalSquares(OutOwn, OutOpp) = {}
    /\ LegalSquares(OutOpp, OutOwn) # {}

\* C8: flips_for_move returns the union over the 8 directions of the run of
\* opponent discs next to the move square, for the directions where an own
\* disc ends the run; the result is a subset of opp.
C8_FlipsForMove ==
    out.op = "flips_for_move" =>
        /\ out.res = FlippedBy(out.arg, OutOwn, OutOpp)
        /\ out.res \subseteq OutOpp

\* A move next to an opponent disc whose run is not ended by an own disc in
\* some direction, and that flips discs in another
C8_Witness ==
    /\ out.op = "flips_for_move"
    /\ out.res # {}
    /\ \E d \in 1 .. Len(DIRS) :
          /\ flips_walk(DIRS[d], Sh(DIRS[d], {out.arg}), {}, OutOpp).captured # {}
          /\ flips_dir(DIRS[d], {out.arg}, OutOwn, OutOpp) = {}

\* ------------------------------------------------------ claims on the game
\* The masks of the side that moved last, before it moved
PrevOwn == player_bits_of(last.prev)[1]
PrevOpp == player_bits_of(last.prev)[2]
\* The same side's masks now (the side to move has changed)
NowMover == IF last.prev.player = PLAYER_BLACK THEN state.black ELSE state.white
NowOther == IF last.prev.player = PLAYER_BLACK THEN state.white ELSE state.black
LastSquare == Square(last.action[1], last.action[2])
LastBit == {LastSquare}
LastWasLegalMove ==
    ply > 0 /\ last.action # PASS_ACTION /\ IsLegalSquare(LastSquare, PrevOwn, PrevOpp)
LastWasPassOrIllegal ==
    ply > 0 /\ (last.action = PASS_ACTION
                \/ ~IsLegalSquare(LastSquare, PrevOwn, PrevOpp))

\* C1: in every state reached by apply_action calls (legal coordinates,
\* illegal coordinates and passes alike) the black and white masks are
\* disjoint and hold at most 64 discs together.
C1_MasksDisjoint ==
    /\ (state.black \cap state.white) = {}
    /\ bit_count(state.black) + bit_count(state.white) <= NumSquares

\* A legal move that flipped discs, made after an earlier action
C1_Witness ==
    /\ ply >= 2
    /\ LastWasLegalMove
    /\ NowOther # PrevOpp

\* C2: state.legal_actions() returns the legal coordinate moves in strictly
\* ascending (row, col) order, without duplicates and without the pass
\* sentinel, or exactly [pass]; [pass] exactly when the side to move has no
\* legal coordinate move.
C2_LegalActions ==
    out.op = "legal_actions" =>
        /\ out.res.exc = "none"
        /\ LET moves == CoordsOf(LegalSquares(player_bits_of(state)[1],
                                              player_bits_of(state)[2]))
               l == out.res.val
           IN  IF moves = {} THEN l = <<PASS_ACTION>>
               ELSE /\ {l[i] : i \in 1 .. Len(l)} = moves
                    /\ \A i \in 1 .. (Len(l) - 1) : CoordLess(l[i], l[i + 1])

\* C4: a coordinate move in the legal mask gives the mover its old mask plus
\* the move bit plus the flipped bits, takes exactly the flipped bits from
\* the opponent, changes no other square and negates the side to move; from
\* the opening, (2,3) gives 4 black discs, 1 white disc and white to move.
C4_LegalMoveEffect ==
    LastWasLegalMove =>
        /\ NowMover = PrevOwn \cup LastBit \cup FlippedBy(LastSquare, PrevOwn, PrevOpp)
        /\ NowOther = PrevOpp \ FlippedBy(LastSquare, PrevOwn, PrevOpp)
        /\ state.player = -last.prev.player
        /\ (last.prev = Opening /\ last.action = <<2, 3>>)
           => /\ bit_count(state.black) = 4
              /\ bit_count(state.white) = 1
              /\ state.player = PLAYER_WHITE

\* (2,3) played from the opening
C4_Witness ==
    /\ LastWasLegalMove
    /\ last.prev = Opening
    /\ last.action = <<2, 3>>
    /\ 19 \in state.black /\ 27 \in state.black

\* C5: apply_action with the pass sentinel, or with a coordinate on the board
\* that is not in the legal mask of the side to move, leaves both masks
\* unchanged and negates the side to move.
C5_PassOrIllegal ==
    LastWasPassOrIllegal =>
        /\ state.black = last.prev.black
        /\ state.white = last.prev.white
        /\ state.player = -last.prev.player

\* An illegal coordinate on an empty square, applied while a legal move exists
C5_Witness ==
    /\ LastWasPassOrIllegal
    /\ last.action # PASS_ACTION
    /\ LastBit \cap (last.prev.black \cup last.prev.white) = {}
    /\ LegalSquares(PrevOwn, PrevOpp) # {}
    /\ state.player = -last.prev.player

\* C7: after a pass applied in a non-terminal state whose mover had no legal
\* coordinate move, legal_actions() of the new state is non-empty and holds
\* no pass sentinel.
C7_AfterForcedPass ==
    (/\ out.op = "legal_actions"
     /\ ply > 0
     /\ last.action = PASS_ACTION
     /\ ~OthelloState_is_terminal(last.prev)
     /\ LegalSquares(PrevOwn, PrevOpp) = {})
    => /\ out.res.exc = "none"
       /\ out.res.val # <<>>
       /\ \A i \in 1 .. Len(out.res.val) : out.res.val[i] # PASS_ACTION

\* C9: in a non-terminal state each of the eight strategies returns a member
\* of the legal actions: a legal coordinate, or the pass sentinel when no
\* coordinate move is legal.
C9_SelectActionLegal ==
    (out.op = "select_action" /\ ~OthelloState_is_terminal(state)) =>
        /\ out.res.exc = "none"
        /\ LET moves == CoordsOf(LegalSquares(player_bits_of(state)[1],
                                              player_bits_of(state)[2]))
           IN  IF moves = {} THEN out.res.val = PASS_ACTION
               ELSE out.res.val \in moves

\* C10: for every depth and every root action, AlphaBetaAgent computes the
\* value MinimaxAgent computes.
C10_AlphaBetaEqualsMinimax ==
    out.op = "root_values" =>
        /\ out.minimax.exc = "none"
        /\ out.alphabeta.exc = "none"
        /\ out.alphabeta.val = out.minimax.val

\* C11: in Reflex, Minimax, AlphaBeta, Expectimax, BFS and DFS, select_action
\* returns the lowest action, in ascending (row, col) order, among the root
\* actions whose computed value is maximal.
C11_LowestBestAction ==
    (/\ out.op = "select_action"
     /\ out.agent \in {"reflex", "minimax", "alphabeta", "expectimax", "bfs", "dfs"}
     /\ LegalSquares(player_bits_of(state)[1], player_bits_of(state)[2]) # {})
    => /\ out.res.exc = "none"
       /\ LET actions == OthelloRules_legal_actions(player_bits_of(state)[1],
                                                    player_bits_of(state)[2])
              vals == CASE out.agent = "reflex" -> reflex_root(state, actions)
                        [] out.agent = "minimax" ->
                               minimax_root(state, actions, out.depth)
                        [] out.agent = "alphabeta" ->
                               alphabeta_root(state, actions, out.depth)
                        [] out.agent = "expectimax" ->
                               expect_root(state, actions, out.depth)
                        [] out.agent = "bfs" -> bfs_root(state, actions, out.depth)
                        [] out.agent = "dfs" -> dfs_root(state, actions, out.depth)
          IN  \E i \in 1 .. Len(actions) :
                  /\ out.res.val = actions[i]
                  /\ \A j \in 1 .. Len(actions) : vals[j].exc = "none"
                  /\ \A j \in 1 .. Len(actions) :
                         /\ ~FracLess(vals[i].val, vals[j].val)
                         /\ j < i => FracLess(vals[j].val, vals[i].val)

\* C12: on a non-terminal state whose mover has no coordinate move, MCTS with
\* an iteration budget N >= 1 runs all N iterations, its move distribution is
\* {pass: 1.0} and select_action returns the pass sentinel.
C12_MctsForcedPass ==
    (/\ out.op = "search"
     /\ out.iterations >= 1
     /\ ~OthelloState_is_terminal(state)
     /\ LegalSquares(player_bits_of(state)[1], player_bits_of(state)[2]) = {})
    => /\ out.res.exc = "none"
       /\ out.res.val.iterations = out.iterations
       /\ DOMAIN out.res.val.move_probabilities = {PASS_ACTION}
       /\ out.res.val.move_probabilities[PASS_ACTION] = Frac(1, 1)
       /\ MCTS_select_action(state, out.iterations) = Return(PASS_ACTION)

C15_AStarNoException ==
    (/\ out.op = "select_action"
     /\ out.agent = "astar"
     /\ out.depth >= 1
     /\ ~OthelloState_is_terminal(state))
    => /\ out.res.exc = "none"
       /\ out.res.val \in Actions

C13_MctsSameSeedSameActions ==
    (/\ out.op = "select_action"
     /\ \A a \in AgentIds : agents[a].name = "mcts"
     /\ agents[1].seed = agents[2].seed
     /\ agents[1].depth = agents[2].depth
     /\ Len(agents[1].log) = Len(agents[2].log))
    => \A i \in 1 .. Len(agents[1].log) :
           /\ agents[1].log[i].exc = "none"
           /\ agents[1].log[i].val \in Actions
           /\ agents[2].log[i] = agents[1].log[i]

\* C16: play_match from the opening returns, with a terminal final state
\* reached after finitely many moves and moves_played > 0.
C16_MatchCompletes ==
    (out.op = "play_match" /\ state = Opening)
    => /\ out.res.exc = "none"
       /\ out.res.val.moves_played > 0
       /\ OthelloState_is_terminal(out.res.val.final_state)

\* C17: run_tournament(a, b, games=n) returns games = n and draws plus the
\* sum of the values of wins = n, for every n >= 0 and also when both agents
\* carry the same name.
C17_TournamentTotals ==
    out.op = "run_tournament"
    => /\ out.res.exc = "none"
       /\ out.res.val.games = out.games
       /\ out.res.val.draws +
              SumOver(DOMAIN out.res.val.wins, out.res.val.wins) = out.games

C19_ResetAndMoveCount ==
    /\ out.op = "reset" =>
           /\ heap[agents[out.agent].info] = AgentInfo
           /\ agents[out.agent].name = out.before.name
           /\ agents[out.agent].depth = out.before.depth
           /\ agents[out.agent].seed = out.before.seed
           /\ agents[out.agent].draws = out.before.draws
    /\ \A a \in AgentIds :
           agents[a].info \notin AgentIds =>
               heap[agents[a].info].move_count = agents[a].calls

\* ------------------------------------------------ claims on the disc count
DiscCount(s) == bit_count(s.black) + bit_count(s.white)

\* C29: along apply_action calls the total disc count never decreases: it
\* grows by exactly 1 on a legal coordinate move and is unchanged on a pass or
\* an illegal coordinate; every reachable state has at least 4 discs, and no
\* triple apply_action produces is the all-empty board that the constructor
\* replaces by the opening.
C29_DiscCountGrows ==
    /\ DiscCount(state) >= 4
    /\ ply > 0 =>
          LET r == OthelloRules_apply_action(last.prev.black, last.prev.white,
                                             last.prev.player, last.action)
          IN  /\ DiscCount(state) >= DiscCount(last.prev)
              /\ LastWasLegalMove => DiscCount(state) = DiscCount(last.prev) + 1
              /\ LastWasPassOrIllegal => DiscCount(state) = DiscCount(last.prev)
              /\ (r.black \cup r.white) # {}
              /\ state = r

\* Two legal moves from the opening, with an action that placed no disc
\* between or before them
C29_Witness ==
    /\ ply > 2
    /\ LastWasLegalMove
    /\ DiscCount(state) = DiscCount(Opening) + 2

\* C30: for every empty square m, the bit of m is in
\* legal_moves_mask(own, opp) exactly when flips_for_move(m, own, opp) is not
\* empty; so apply_action changes the board on the coordinate of m exactly
\* when the move flips a disc.
C30_MaskAgreesWithFlips ==
    (out.op = "flips_for_move" /\ out.arg \notin (state.black \cup state.white)) =>
        /\ (out.arg \in legal_moves_mask(OutOwn, OutOpp)) <=> (out.res # {})
        /\ LET r == OthelloRules_apply_action(state.black, state.white, out.player,
                                              bit_to_coord(out.arg))
           IN  (r.black # state.black \/ r.white # state.white) <=> (out.res # {})

\* An empty square next to an opponent disc that is in the mask and flips a
\* run of two or more discs, on a board where another empty square next to
\* a disc is no move
C30_Witness ==
    /\ out.op = "flips_for_move"
    /\ out.arg \notin (state.black \cup state.white)
    /\ out.arg \in legal_moves_mask(OutOwn, OutOpp)
    /\ Cardinality(out.res) >= 2
    /\ \E m \in ProbeSquares(state.black, state.white) \ (state.black \cup state.white) :
          m \notin legal_moves_mask(OutOwn, OutOpp)

\* --------------------------------------------- claims on the nodes entered
\* The root actions in the order the agents loop over them
RootActions ==
    sorted(OthelloRules_legal_actions(player_bits_of(state)[1], player_bits_of(state)[2]))

\* C21: with no goal predicate and d >= 1, DFSAgent with depth_limit d
\* computes for every root action the value MinimaxAgent with depth d
\* computes, enters the same number of nodes and returns the same action.
C21_DfsEqualsMinimax ==
    (out.op = "select_action" /\ out.agent = "dfs" /\ out.depth >= 1) =>
        /\ out.res.exc = "none"
        /\ out.res = Minimax_select_action(state, out.depth)
        /\ \A i \in 1 .. Len(RootActions) :
               /\ dfs_root(state, RootActions, out.depth)[i].exc = "none"
               /\ dfs_root(state, RootActions, out.depth)[i] =
                      minimax_root(state, RootActions, out.depth)[i]
        /\ DFS_visited(state, out.depth).exc = "none"
        /\ Minimax_visited(state, out.depth).exc = "none"
        /\ Cardinality(DFS_visited(state, out.depth).val) =
               Cardinality(Minimax_visited(state, out.depth).val)

RECURSIVE horizon_nodes(_, _, _)
horizon_nodes(s, depth, depth_limit) ==
    IF depth >= depth_limit \/ OthelloState_is_terminal(s) THEN {s}
    ELSE LET actions == pass_if_none(OthelloRules_legal_actions(player_bits_of(s)[1],
                                                                player_bits_of(s)[2]))
         IN  {s} \cup UNION {horizon_nodes(OthelloState_apply_action(s, actions[i]),
                                           depth + 1, depth_limit) :
                             i \in 1 .. Len(actions)}

RECURSIVE horizon_leaves(_, _, _)
horizon_leaves(s, depth, depth_limit) ==
    IF depth >= depth_limit \/ OthelloState_is_terminal(s) THEN {s}
    ELSE LET actions == pass_if_none(OthelloRules_legal_actions(player_bits_of(s)[1],
                                                                player_bits_of(s)[2]))
         IN  UNION {horizon_leaves(OthelloState_apply_action(s, actions[i]),
                                   depth + 1, depth_limit) :
                    i \in 1 .. Len(actions)}

\* C22: BFSAgent scores a root action as the greatest evaluator value, for the
\* root mover, over the terminal nodes and the nodes at depth depth_limit of
\* the action's subtree, a forced pass counting as one ply; if the goal
\* predicate holds at a node of that subtree the score is +infinity.
C22_BfsScoresMaxLeaf ==
    out.op = "evaluate_action" =>
        LET child == OthelloState_apply_action(state, out.action)
            nodes == horizon_nodes(child, 1, out.depth_limit)
            leaves == horizon_leaves(child, 1, out.depth_limit)
        IN  /\ out.res.exc = "none"
            /\ IF \E n \in nodes : goal_test_holds(out.goal_test, n, state.player)
               THEN out.res.val = INF
               ELSE /\ \A l \in leaves : agent_evaluate(l, state.player).exc = "none"
                    /\ \E l \in leaves :
                          out.res.val = agent_evaluate(l, state.player).val
                    /\ \A l \in leaves :
                          ~FracLess(out.res.val, agent_evaluate(l, state.player).val)

\* ------------------------------------------------ claims on the tree search
\* The tree MonteCarloTreeSearch(iterations, rollout_limit=5).search(state)
\* builds, for the recorded search
OutTree == MCTS_tree(state, out.iterations, 5)

HasLegalMove == LegalSquares(player_bits_of(state)[1], player_bits_of(state)[2]) # {}

\* The number of parent steps from node up to k, or -1 if k is not on the
\* path from node to the root
RECURSIVE StepsUp(_, _, _)
StepsUp(tree, node, k) ==
    IF node = k THEN 0
    ELSE IF node = 0 \/ tree[node].parent = 0 THEN -1
    ELSE LET above == StepsUp(tree, tree[node].parent, k)
         IN  IF above < 0 THEN -1 ELSE above + 1

C24_MctsMostVisited ==
    (/\ out.op = "select_action" /\ out.agent = "mcts" /\ out.depth >= 1
     /\ HasLegalMove)
    => /\ out.res.exc = "none"
       /\ MCTS_search(state, out.depth, 150).exc = "none"
       /\ LET share == MCTS_search(state, out.depth, 150).val.move_probabilities
          IN  /\ out.res.val \in DOMAIN share
              /\ \A mv \in DOMAIN share :
                     \/ FracLess(share[mv], share[out.res.val])
                     \/ /\ share[mv] = share[out.res.val]
                        /\ ~CoordLess(out.res.val, mv)

\* C25: every rollout returns: it applies at most rollout_limit moves, ends
\* at a terminal position, at the limit or after two passes in a row, and its
\* value is +1, -1 or 0 by the disc majority of the last position, for the
\* side to move at its start.
C25_RolloutTerminates ==
    out.op = "rollout" =>
        /\ out.res.exc = "none"
        /\ mcts_rollout_loop(state, 0, 0, out.rollout_limit).exc = "none"
        /\ LET end == mcts_rollout_loop(state, 0, 0, out.rollout_limit).val
               own == IF state.player = PLAYER_BLACK THEN end.cur.black
                      ELSE end.cur.white
               opp == IF state.player = PLAYER_BLACK THEN end.cur.white
                      ELSE end.cur.black
           IN  /\ end.steps <= out.rollout_limit
               /\ \/ OthelloState_is_terminal(end.cur)
                  \/ end.steps = out.rollout_limit
                  \/ end.passes >= 2
               /\ out.res.val = Sign(Cardinality(own) - Cardinality(opp))

\* C26: after a search with budget N >= 1 on a state with a legal action the
\* root's visit count is N, the visit counts of its children sum to N, every
\* root child has a visit and the visit shares sum to 1; and a node whose
\* child was chosen by UCT (visited again after its expansion) has no untried
\* action left.
C26_VisitCounts ==
    (out.op = "search" /\ out.iterations >= 1 /\ HasLegalMove) =>
        /\ out.res.exc = "none"
        /\ OutTree.exc = "none"
        /\ LET tree == OutTree.val.tree
               children == tree[1].children
               share == out.res.val.move_probabilities
           IN  /\ tree[1].visits = out.iterations
               /\ SumOver(1 .. Len(children),
                          [i \in 1 .. Len(children) |-> tree[children[i].node].visits])
                      = out.iterations
               /\ \A i \in 1 .. Len(children) : tree[children[i].node].visits >= 1
               /\ DOMAIN share = {children[i].mv : i \in 1 .. Len(children)}
               /\ \A i \in 1 .. Len(children) :
                      share[children[i].mv] =
                          Frac(tree[children[i].node].visits, out.iterations)
               /\ \A k \in 1 .. Len(tree) : \A i \in 1 .. Len(tree[k].children) :
                      tree[tree[k].children[i].node].visits > 1 =>
                          tree[k].listed /\ tree[k].untried_actions = <<>>

\* C27: of two children with equal visit counts, the one whose rollouts were
\* all wins for the parent's side to move (losses for the side to move at the
\* child, which value_sum counts) has the higher UCT score than the one whose
\* rollouts were all losses for the parent's side.
C27_UctPrefersParentWins ==
    (/\ out.op = "ucb_score"
     /\ out.a.visits = out.b.visits
     /\ out.a.value_sum = -out.a.visits
     /\ out.b.value_sum = out.b.visits)
    => out.greater = "yes"

====
